---- MODULE Spec2Model ----
(***************************************************************************)
(* A model of the Brain CLI: the JSON-backed note store                    *)
(* (src/src/storage/database.ts), the resume and list commands             *)
(* (src/src/cli/commands.ts) and the git log collector                     *)
(* (src/src/git/analyzer.ts).                                              *)
(*                                                                         *)
(* Encoding of JavaScript values:                                          *)
(*   - an optional value (a property that may be missing, a result that    *)
(*     may be null) is a sequence of length 0 or 1;                        *)
(*   - the object this.data.workNotes is the sequence of its values in     *)
(*     property order, which for the non-numeric keys the program uses     *)
(*     ("note-...") is insertion order; a note's key is its id;            *)
(*   - a note id i stands for the string "note-i";                         *)
(*   - a text (git output) is a sequence of one-character strings.         *)
(***************************************************************************)
EXTENDS Integers, Sequences, FiniteSets, TLC

VARIABLES
    config,      \* Storage.config: <<>> before initialize, else <<BrainConfig>>
    configFile,  \* config.json: <<>> when missing, else <<BrainConfig>>
    data,        \* Storage.data.workNotes
    dataFile,    \* contexts.json: [kind, workNotes]
    last,        \* the last operation of the store or CLI and what it reported
    repoLog,     \* the commits of the repository git log reads, newest first
    logCall,     \* <<the last getRecentCommits call and its outcome>>, or <<>>
    statusCall,  \* <<the last getWorkingDirectoryChanges call and its outcome>>
    pathCall,    \* <<the last getRepositoryPath call and its outcome>>, or <<>>
    analysis,    \* <<the last GitAnalyzer.analyze call>>: what git answers, the
                 \* queries that have completed, the outcome; or <<>>
    aiClient,    \* BrainCLI.aiClient: <<>> for null, else <<[apiKey, model]>>
    aiCall,      \* <<the last AIClient.analyzeContext call and its outcome>>
    dataShape,   \* what this.data.workNotes is: "object", or "number"
    pending,     \* the writes of the notes file that have not completed
    peer         \* the collection of a second Storage instance on the same
                 \* directory: <<>> before its initialize, else <<workNotes>>

vars == <<config, configFile, data, dataFile, last, repoLog, logCall,
          statusCall, pathCall, analysis, aiClient, aiCall, dataShape, pending, peer>>

storeVars ==
    <<config, configFile, data, dataFile, last, dataShape, pending, peer>>
gitVars == <<repoLog, logCall, statusCall, pathCall, analysis>>
aiVars == <<aiClient, aiCall>>

----------------------------------------------------------------------------
(* Bounds of the model *)

MaxNotes == 2    \* number of distinct note ids
MaxCount == 2    \* largest count passed to listCommand

NoteIds == 1..MaxNotes

Min(a, b) == IF a <= b THEN a ELSE b

----------------------------------------------------------------------------
(* Notes *)

\* ISO timestamps as the program stores them
Timestamps == {"2025-01-15T10:00:00Z", "2025-01-15T11:00:00Z"}

\* new Date(timestamp).getTime(), in seconds since the epoch
getTime(timestamp) ==
    CASE timestamp = "2025-01-15T10:00:00Z" -> 1736935200
      [] timestamp = "2025-01-15T11:00:00Z" -> 1736938800
      [] timestamp = "2025-01-15T12:00:00Z" -> 1736942400
      [] timestamp = "2025-01-15T13:00:00Z" -> 1736946000

\* Repository root paths; "" is what getRepositoryPath returns for a
\* repository at the filesystem root ("/.git" with its last 5 characters cut).
RepositoryPaths == {"", "/a", "/b"}

BranchNames == {"main", "dev"}

\* the --branch option of the list command: not given, or a branch name
BranchOptions == {<<>>, <<"main">>}

\* JavaScript truthiness of an optional string
Truthy(optString) == Len(optString) = 1 /\ optString[1] # ""

RepositoryInfo(path) == [path |-> path, identifier |-> path]

\* message, branch and interpretation of the note with a given id
NoteMessage(id) == IF id % 2 = 1 THEN "m-odd" ELSE "m-even"
NoteBranch(id) == IF id % 2 = 1 THEN "main" ELSE "dev"
NoteInterpretation(id) ==
    IF id % 2 = 1 THEN <<>>
    ELSE <<[summary |-> "s", confidenceScore |-> 1]>>

\* interface WorkNote, with gitContext.repositoryPath and repositoryInfo
\* optional as they are in the notes file of an older version
WorkNote(id, timestamp, repositoryPath, repositoryInfo) ==
    [timestamp |-> timestamp,
     id |-> id,
     repositoryInfo |-> repositoryInfo,
     message |-> NoteMessage(id),
     gitContext |-> [repositoryPath |-> repositoryPath,
                     currentBranch |-> NoteBranch(id)],
     aiInterpretation |-> NoteInterpretation(id)]

\* the notes a caller of the current version builds (saveCommand, the tests)
TypedNotes(id) ==
    {WorkNote(id, t, <<p>>, <<RepositoryInfo(p)>>) :
        t \in Timestamps, p \in RepositoryPaths}

\* the notes an older version wrote: no repositoryInfo, perhaps no path
LegacyNotes(id) ==
    {WorkNote(id, t, op, <<>>) :
        t \in Timestamps, op \in {<<>>} \cup {<<p>> : p \in RepositoryPaths}}

FileNotes(id) == TypedNotes(id) \cup LegacyNotes(id)

\* the note collections a notes file may hold: ids ascending, each at most once
RECURSIVE FileCollections(_)
FileCollections(k) ==
    IF k = 0 THEN {<<>>}
    ELSE FileCollections(k - 1) \cup
         {Append(s, n) : s \in FileCollections(k - 1), n \in FileNotes(k)}

----------------------------------------------------------------------------
(* Storage: src/src/storage/database.ts *)

StoragePath == "dir"

\* the default settings loadConfig creates when config.json cannot be read
DefaultConfig ==
    [openaiApiKey |-> <<>>, maxCommits |-> 10, aiModel |-> "gpt-4",
     storagePath |-> StoragePath, enableAI |-> TRUE]

MissingFile == [kind |-> "missing", workNotes |-> <<>>]
CorruptFile == [kind |-> "corrupt", workNotes |-> <<>>]

\* notes files that hold JSON but no id-to-note mapping: the document null,
\* an object without workNotes ({}), a workNotes that is a number
\* ({"workNotes": 5}), a mapping whose values are no objects
\* ({"workNotes": {"a": 5}})
NullFile == [kind |-> "null", workNotes |-> <<>>]
NoWorkNotesFile == [kind |-> "noWorkNotes", workNotes |-> <<>>]
NumberWorkNotesFile == [kind |-> "numberWorkNotes", workNotes |-> <<>>]
ScalarNotesFile == [kind |-> "scalarNotes", workNotes |-> <<>>]

\* JSON.stringify(this.data): the collection as a JSON document
JsonFile(workNotes) == [kind |-> "json", workNotes |-> workNotes]

\* Storage.loadConfig: the settings after loading, and the settings file
loadConfig(file) ==
    IF Len(file) = 1
    THEN [config |-> file, configFile |-> file]
    ELSE [config |-> <<DefaultConfig>>, configFile |-> <<DefaultConfig>>]

\* checkMigrationNeeded with every() where the code has some()
checkMigrationNeeded_every(workNotes) ==
    /\ workNotes # <<>>
    /\ \A i \in 1..Len(workNotes) : Len(workNotes[i].repositoryInfo) = 0

\* Storage.checkMigrationNeeded
checkMigrationNeeded(workNotes) ==
    \E i \in 1..Len(workNotes) : Len(workNotes[i].repositoryInfo) = 0

\* the loop body without the "unknown" fallback: a note with no usable path
\* is counted but gets no descriptor
MigrateNote_noFallback(note) ==
    IF Truthy(note.gitContext.repositoryPath)
    THEN [note EXCEPT !.repositoryInfo =
            <<[path |-> note.gitContext.repositoryPath[1],
               identifier |-> note.gitContext.repositoryPath[1]]>>]
    ELSE note

\* the loop body with the identifier left at its initial "unknown"
MigrateNote_unknownIdentifier(note) ==
    LET repositoryPath ==
            IF Truthy(note.gitContext.repositoryPath)
            THEN note.gitContext.repositoryPath[1]
            ELSE "unknown"
    IN  [note EXCEPT !.repositoryInfo =
            <<[path |-> repositoryPath, identifier |-> "unknown"]>>]

\* the body of the loop of Storage.performMigration for one note
MigrateNote(note) ==
    LET repositoryPath ==
            IF Truthy(note.gitContext.repositoryPath)
            THEN note.gitContext.repositoryPath[1]
            ELSE "unknown"
    IN  [note EXCEPT !.repositoryInfo =
            <<[path |-> repositoryPath, identifier |-> repositoryPath]>>]

\* performMigration keeping only the notes it migrated
performMigration_onlyMigrated(workNotes) ==
    LET Legacy(note) == Len(note.repositoryInfo) = 0
        legacy == SelectSeq(workNotes, Legacy)
    IN  [workNotes |-> [i \in 1..Len(legacy) |-> MigrateNote(legacy[i])],
         migratedCount |-> Len(legacy)]

\* Storage.performMigration: the collection after the loop and migratedCount
RECURSIVE performMigration(_)
performMigration(workNotes) ==
    IF workNotes = <<>>
    THEN [workNotes |-> <<>>, migratedCount |-> 0]
    ELSE LET note == Head(workNotes)
             rest == performMigration(Tail(workNotes))
         IN  IF Len(note.repositoryInfo) = 1
             THEN [workNotes |-> <<note>> \o rest.workNotes,
                   migratedCount |-> rest.migratedCount]
             ELSE [workNotes |-> <<MigrateNote(note)>> \o rest.workNotes,
                   migratedCount |-> rest.migratedCount + 1]

\* Storage.saveData: the notes file after writing a collection
saveData(workNotes) == JsonFile(workNotes)

\* Storage.loadData: the collection in memory, the notes file afterwards, the
\* count the migration logs (0 when it logs nothing) and what
\* this.data.workNotes is afterwards.  Reading a missing file, parsing text
\* that is not JSON, Object.values of undefined or null and the assignment of
\* repositoryInfo to a value that is no object throw, and the catch resets
\* the collection; Object.values of a number is empty and throws nothing.
loadData(file) ==
    IF file.kind = "json"
    THEN IF checkMigrationNeeded(file.workNotes)
         THEN LET m == performMigration(file.workNotes)
              IN  [data |-> m.workNotes, dataFile |-> saveData(m.workNotes),
                   dataShape |-> "object", migrated |-> m.migratedCount]
         ELSE [data |-> file.workNotes, dataFile |-> file, dataShape |-> "object",
               migrated |-> 0]
    ELSE IF file.kind = "numberWorkNotes"
    THEN [data |-> <<>>, dataFile |-> file, dataShape |-> "number",
          migrated |-> 0]
    ELSE [data |-> <<>>, dataFile |-> saveData(<<>>), dataShape |-> "object",
          migrated |-> 0]

\* index of the note with the given id in a collection, 0 when there is none;
\* an object holds at most one value for a key
IndexOf(workNotes, id) ==
    IF \E i \in 1..Len(workNotes) : workNotes[i].id = id
    THEN CHOOSE i \in 1..Len(workNotes) : workNotes[i].id = id
    ELSE 0

\* an insert that leaves an existing note of the same id as it is
PutNote_keepExisting(workNotes, workNote) ==
    IF IndexOf(workNotes, workNote.id) = 0
    THEN Append(workNotes, workNote)
    ELSE workNotes

\* this.data.workNotes[workNote.id] = { ...workNote }
PutNote(workNotes, workNote) ==
    LET i == IndexOf(workNotes, workNote.id)
    IN  IF i = 0 THEN Append(workNotes, workNote)
        ELSE [workNotes EXCEPT ![i] = workNote]

\* delete this.data.workNotes[id]
RemoveNote(workNotes, id) ==
    LET i == IndexOf(workNotes, id)
    IN  SubSeq(workNotes, 1, i - 1) \o SubSeq(workNotes, i + 1, Len(workNotes))

\* the comparator (a, b) => getTime(b.timestamp) - getTime(a.timestamp)
NewestFirst(a, b) == getTime(b.timestamp) - getTime(a.timestamp)

\* one step of a stable sort: note goes after every element it does not precede
RECURSIVE InsertSorted(_, _)
InsertSorted(sorted, note) ==
    IF sorted = <<>> THEN <<note>>
    ELSE IF NewestFirst(Head(sorted), note) > 0
         THEN <<note>> \o sorted
         ELSE <<Head(sorted)>> \o InsertSorted(Tail(sorted), note)

\* Array.prototype.sort with the comparator NewestFirst (the sort is stable)
RECURSIVE SortNotes(_)
SortNotes(notes) ==
    IF notes = <<>> THEN <<>>
    ELSE InsertSorted(SortNotes(SubSeq(notes, 1, Len(notes) - 1)),
                      notes[Len(notes)])

\* Array.prototype.slice(0, limit) for limit >= 0
Slice(notes, limit) == SubSeq(notes, 1, Min(limit, Len(notes)))

\* the repositoryId filter of getRecentWorkNotes and getLastWorkNote
FilterByRepository(notes, repositoryId) ==
    IF Truthy(repositoryId)
    THEN LET Keep(note) ==
                 /\ Len(note.repositoryInfo) = 1
                 /\ note.repositoryInfo[1].identifier = repositoryId[1]
         IN  SelectSeq(notes, Keep)
    ELSE notes

\* Storage.getWorkNote
getWorkNote(id) ==
    LET i == IndexOf(data, id)
    IN  IF i = 0 THEN <<>> ELSE <<data[i]>>

\* getLatestWorkNote without the sort
getLatestWorkNote_unsorted ==
    IF data = <<>> THEN <<>> ELSE <<data[1]>>

\* Storage.getLatestWorkNote
getLatestWorkNote ==
    IF data = <<>> THEN <<>> ELSE <<SortNotes(data)[1]>>

\* getRecentWorkNotes without the sort: the first notes in store order
getRecentWorkNotes_unsorted(limit, repositoryId) ==
    Slice(FilterByRepository(data, repositoryId), limit)

\* Storage.getRecentWorkNotes(limit, repositoryId)
getRecentWorkNotes(limit, repositoryId) ==
    Slice(SortNotes(FilterByRepository(data, repositoryId)), limit)

\* Storage.getWorkNotesByRepository
getWorkNotesByRepository(repositoryId) ==
    LET Keep(note) ==
            /\ Len(note.repositoryInfo) = 1
            /\ note.repositoryInfo[1].identifier = repositoryId
    IN  SortNotes(SelectSeq(data, Keep))

\* Storage.getLastWorkNote(repositoryId)
getLastWorkNote(repositoryId) ==
    LET workNotes == FilterByRepository(data, repositoryId)
    IN  IF workNotes = <<>> THEN <<>> ELSE <<SortNotes(workNotes)[1]>>

\* Storage.getWorkNotesByBranch
getWorkNotesByBranch(branch) ==
    LET Keep(note) == note.gitContext.currentBranch = branch
    IN  SortNotes(SelectSeq(data, Keep))

----------------------------------------------------------------------------
(* GitAnalyzer.getRecentCommits: src/src/git/analyzer.ts                    *)
(* A text is a sequence of one-character strings.                           *)

MaxLog == 3      \* number of commits in the repository's history

FieldSeparator == "§"
NewLine == "\n"
Whitespace == {" ", NewLine}

\* String.prototype.includes, for a non-empty pattern
Includes(text, pattern) ==
    \E i \in 1..(Len(text) - Len(pattern) + 1) :
        SubSeq(text, i, i + Len(pattern) - 1) = pattern

\* String.prototype.split with a non-empty separator
RECURSIVE Split(_, _)
Split(text, separator) ==
    IF Includes(text, separator)
    THEN LET i == CHOOSE k \in 1..(Len(text) - Len(separator) + 1) :
                     /\ SubSeq(text, k, k + Len(separator) - 1) = separator
                     /\ \A j \in 1..(k - 1) :
                           SubSeq(text, j, j + Len(separator) - 1) # separator
         IN  <<SubSeq(text, 1, i - 1)>> \o
             Split(SubSeq(text, i + Len(separator), Len(text)), separator)
    ELSE <<text>>

\* String.prototype.trim
RECURSIVE Trim(_)
Trim(text) ==
    IF text = <<>> THEN <<>>
    ELSE IF Head(text) \in Whitespace THEN Trim(Tail(text))
    ELSE IF text[Len(text)] \in Whitespace
         THEN Trim(SubSeq(text, 1, Len(text) - 1))
    ELSE text

\* .filter((line) => line.trim())
NonBlank(texts) ==
    LET Keep(t) == Trim(t) # <<>>
    IN  SelectSeq(texts, Keep)

\* .map((f) => f.trim())
TrimAll(texts) == [i \in 1..Len(texts) |-> Trim(texts[i])]

\* parseGitLogOutput, the branch for output without a blank line: every line
\* with a separator and at least 4 fields is a commit, its files comma-joined
\* in the fifth field
RECURSIVE ParseLines(_)
ParseLines(lines) ==
    IF lines = <<>> THEN <<>>
    ELSE LET line == Head(lines)
             parts == Split(line, <<FieldSeparator>>)
         IN  IF Includes(line, <<FieldSeparator>>) /\ Len(parts) >= 4
             THEN <<[timestamp |-> Trim(parts[3]),
                     message |-> Trim(parts[2]),
                     hash |-> Trim(parts[1]),
                     author |-> Trim(parts[4]),
                     filesChanged |->
                         IF Len(parts) >= 5 /\ parts[5] # <<>>
                         THEN TrimAll(Split(parts[5], <<",">>))
                         ELSE <<>>]>> \o ParseLines(Tail(lines))
             ELSE ParseLines(Tail(lines))

\* a block's first line has the four fields the destructuring reads; with
\* fewer, .trim() is called on undefined and a TypeError is thrown
BlockWellFormed(block) ==
    LET commitInfo == Split(block, <<NewLine>>)[1]
    IN  Includes(commitInfo, <<FieldSeparator>>) =>
            Len(Split(commitInfo, <<FieldSeparator>>)) >= 4

\* parseGitLogOutput, the branch for blank-line separated blocks: the first
\* line of a block is the commit, its other lines without a separator the files
RECURSIVE ParseBlocks(_)
ParseBlocks(commitBlocks) ==
    IF commitBlocks = <<>> THEN <<>>
    ELSE LET lines == Split(Head(commitBlocks), <<NewLine>>)
             commitInfo == lines[1]
             parts == Split(commitInfo, <<FieldSeparator>>)
             IsFile(l) == Trim(l) # <<>> /\ ~Includes(l, <<FieldSeparator>>)
         IN  IF ~Includes(commitInfo, <<FieldSeparator>>)
             THEN ParseBlocks(Tail(commitBlocks))
             ELSE <<[timestamp |-> Trim(parts[3]),
                     message |-> Trim(parts[2]),
                     hash |-> Trim(parts[1]),
                     author |-> Trim(parts[4]),
                     filesChanged |-> TrimAll(SelectSeq(Tail(lines), IsFile))]>>
                  \o ParseBlocks(Tail(commitBlocks))

\* GitAnalyzer.parseGitLogOutput: the commits, or a thrown TypeError
parseGitLogOutput(output) ==
    IF Includes(output, <<FieldSeparator>>) /\ ~Includes(output, <<NewLine, NewLine>>)
    THEN [status |-> "ok",
          commits |-> ParseLines(NonBlank(Split(output, <<NewLine>>)))]
    ELSE LET commitBlocks == NonBlank(Split(output, <<NewLine, NewLine>>))
         IN  IF \A i \in 1..Len(commitBlocks) : BlockWellFormed(commitBlocks[i])
             THEN [status |-> "ok", commits |-> ParseBlocks(commitBlocks)]
             ELSE [status |-> "TypeError", commits |-> <<>>]

----------------------------------------------------------------------------
(* The repository git log reads, and what git prints for it *)

Digits == <<"0", "1", "2", "3", "4", "5", "6", "7", "8", "9">>

\* the hash of the k-th commit of a history
HashOf(k) == <<"c", Digits[k + 1]>>

\* %s: the subject line, empty for a commit made with --allow-empty-message;
\* a subject may contain any character, the field separator included
Subjects == {<<>>, <<"s">>, <<"s", FieldSeparator>>}

\* the changed files of a commit, none for an empty or merge commit
FileLists == {<<>>, <<<<"f">>>>, <<<<"f">>, <<"g">>>>}

RepoCommit(k, subject, files) ==
    [hash |-> HashOf(k), author |-> <<"n">>, subject |-> subject,
     files |-> files, date |-> <<"d">>]

\* the histories of at most k commits
RECURSIVE Histories(_)
Histories(k) ==
    IF k = 0 THEN {<<>>}
    ELSE Histories(k - 1) \cup
         {Append(h, RepoCommit(k, s, f)) :
             h \in {g \in Histories(k - 1) : Len(g) = k - 1},
             s \in Subjects, f \in FileLists}

\* the lines git prints after a commit's header with --name-only
RECURSIVE FileLines(_)
FileLines(files) ==
    IF files = <<>> THEN <<>>
    ELSE Head(files) \o <<NewLine>> \o FileLines(Tail(files))

\* what git prints for one commit with
\* --pretty=format:%H<sep>%s<sep>%ai<sep>%an<sep> --name-only
RenderCommit(c) ==
    c.hash \o <<FieldSeparator>> \o c.subject \o <<FieldSeparator>> \o
    c.date \o <<FieldSeparator>> \o c.author \o <<FieldSeparator>> \o
    (IF c.files = <<>> THEN <<>> ELSE <<NewLine>> \o FileLines(c.files))

\* what git prints for a list of commits: one newline between commits
RECURSIVE RenderLog(_)
RenderLog(commits) ==
    IF commits = <<>> THEN <<>>
    ELSE IF Len(commits) = 1 THEN RenderCommit(commits[1])
    ELSE RenderCommit(Head(commits)) \o <<NewLine>> \o RenderLog(Tail(commits))

\* runCommand(["log", "--max-count=N", "--pretty=format:...", "--name-only"]):
\* the standard output of a successful run
runGitLog(maxCommits, log) ==
    RenderLog(SubSeq(log, 1, Min(maxCommits, Len(log))))

LogOutcome(maxCommits, status, error, commits, runs) ==
    [maxCommits |-> maxCommits, status |-> status, commits |-> commits,
     error |-> error, runs |-> runs]

\* getRecentCommits rejecting only negative counts
getRecentCommits_allowsZero(maxCommits, success, log) ==
    IF maxCommits < 0
    THEN LogOutcome(maxCommits, "error", "maxCommits must be positive", <<>>, 0)
    ELSE IF ~success
    THEN LogOutcome(maxCommits, "error", "Git log command failed", <<>>, 1)
    ELSE LET stdout == runGitLog(maxCommits, log)
         IN  IF Trim(stdout) = <<>>
             THEN LogOutcome(maxCommits, "ok", "", <<>>, 1)
             ELSE LET parsed == parseGitLogOutput(stdout)
                  IN  LogOutcome(maxCommits, parsed.status,
                                 IF parsed.status = "ok" THEN "" ELSE "TypeError",
                                 parsed.commits, 1)

\* GitAnalyzer.getRecentCommits(maxCommits); success tells whether the git
\* subprocess succeeds, runs counts the subprocesses the call started
getRecentCommits(maxCommits, success, log) ==
    IF maxCommits <= 0
    THEN LogOutcome(maxCommits, "error", "maxCommits must be positive", <<>>, 0)
    ELSE IF ~success
    THEN LogOutcome(maxCommits, "error", "Git log command failed", <<>>, 1)
    ELSE LET stdout == runGitLog(maxCommits, log)
         IN  IF Trim(stdout) = <<>>
             THEN LogOutcome(maxCommits, "ok", "", <<>>, 1)
             ELSE LET parsed == parseGitLogOutput(stdout)
                  IN  LogOutcome(maxCommits, parsed.status,
                                 IF parsed.status = "ok" THEN "" ELSE "TypeError",
                                 parsed.commits, 1)

\* a call of getRecentCommits
GetRecentCommits(maxCommits, success) ==
    /\ logCall' = <<getRecentCommits(maxCommits, success, repoLog)>>
    /\ UNCHANGED <<repoLog, statusCall, pathCall, analysis, storeVars, aiVars>>

----------------------------------------------------------------------------
(* GitAnalyzer.getWorkingDirectoryChanges: src/src/git/analyzer.ts          *)

MaxStatus == 2   \* number of lines of the status output

\* the characters of a status code that the classification tells apart:
\* unmodified, modified, and the marker of untracked paths
StatusCodes == {" ", "M", "?"}

\* the path of the k-th entry of a report; git reports every path once
StatusPath(k) == <<"d", "/", "f", Digits[k + 1]>>

\* the entries git status can report in the k-th place: a two-character code
\* XY, of which at least one character is not a space, and the path
StatusEntries(k) ==
    {e \in [x : StatusCodes, y : StatusCodes, path : {StatusPath(k)}] :
        ~(e.x = " " /\ e.y = " ")}

\* the status reports of at most k entries
RECURSIVE StatusReports(_)
StatusReports(k) ==
    IF k = 0 THEN {<<>>}
    ELSE StatusReports(k - 1) \cup
         {Append(r, e) : r \in {q \in StatusReports(k - 1) : Len(q) = k - 1},
                         e \in StatusEntries(k)}

\* what git status --porcelain prints: a line "XY path" for every entry
RECURSIVE RenderStatus(_)
RenderStatus(entries) ==
    IF entries = <<>> THEN <<>>
    ELSE <<Head(entries).x, Head(entries).y, " ">> \o Head(entries).path \o
         <<NewLine>> \o RenderStatus(Tail(entries))

\* the loop of getWorkingDirectoryChanges over the lines of the output
RECURSIVE ClassifyLines(_)
ClassifyLines(lines) ==
    IF lines = <<>>
    THEN [staged |-> <<>>, unstaged |-> <<>>, untracked |-> <<>>]
    ELSE LET line == Head(lines)
             rest == ClassifyLines(Tail(lines))
         IN  IF Len(line) < 3 THEN rest
             ELSE LET indexStatus == line[1]
                      workTreeStatus == line[2]
                      filename == SubSeq(line, 4, Len(line))
                  IN  [staged |->
                           IF indexStatus # " " /\ indexStatus # "?"
                           THEN <<filename>> \o rest.staged ELSE rest.staged,
                       unstaged |->
                           IF workTreeStatus # " " /\ workTreeStatus # "?"
                           THEN <<filename>> \o rest.unstaged ELSE rest.unstaged,
                       untracked |->
                           IF workTreeStatus = "?"
                           THEN <<filename>> \o rest.untracked ELSE rest.untracked]

StatusOutcome(status, changes) ==
    [status |-> status, staged |-> changes.staged,
     unstaged |-> changes.unstaged, untracked |-> changes.untracked]

\* getWorkingDirectoryChanges splitting the trimmed output
getWorkingDirectoryChanges_trimmed(success, stdout) ==
    IF ~success
    THEN StatusOutcome("error", ClassifyLines(<<>>))
    ELSE StatusOutcome("ok", ClassifyLines(NonBlank(Split(Trim(stdout), <<NewLine>>))))

\* GitAnalyzer.getWorkingDirectoryChanges; success tells whether the git
\* subprocess succeeds, stdout is what it prints
getWorkingDirectoryChanges(success, stdout) ==
    IF ~success
    THEN StatusOutcome("error", ClassifyLines(<<>>))
    ELSE StatusOutcome("ok", ClassifyLines(NonBlank(Split(stdout, <<NewLine>>))))

\* a call of getWorkingDirectoryChanges in a working tree with these entries
GetWorkingDirectoryChanges(success, entries) ==
    /\ statusCall' = <<[entries |-> entries,
                        result |-> getWorkingDirectoryChanges(
                                       success, RenderStatus(entries))]>>
    /\ UNCHANGED <<repoLog, logCall, pathCall, analysis, storeVars, aiVars>>

----------------------------------------------------------------------------
(* GitAnalyzer.getRepositoryPath: src/src/git/analyzer.ts                   *)

DotGit == <<".", "g", "i", "t">>

\* what git rev-parse prints, before the whitespace around it: a directory,
\* a directory with a trailing separator, a .git directory given by its
\* absolute path, the relative .git
LocationBodies ==
    {<<"/", "p">>, <<"/", "p", "/">>, <<"/", "q">>,
     <<"/", "p", "/">> \o DotGit, <<"/">> \o DotGit, DotGit}

\* the output with the whitespace git and the callers' mocks put around it
LocationOutputs ==
    {pre \o body \o post :
        pre \in {<<>>, <<" ", " ">>},
        body \in LocationBodies,
        post \in {<<>>, <<NewLine>>, <<NewLine, NewLine>>, <<" ", " ", NewLine>>}}

\* Deno.cwd()
WorkingDirectoryTexts == {<<"/", "p">>, <<"/", "q">>}

\* String.prototype.endsWith
EndsWith(text, suffix) ==
    /\ Len(text) >= Len(suffix)
    /\ SubSeq(text, Len(text) - Len(suffix) + 1, Len(text)) = suffix

\* String.prototype.slice(0, -n)
DropLast(text, n) ==
    IF Len(text) <= n THEN <<>> ELSE SubSeq(text, 1, Len(text) - n)

\* GitAnalyzer.getRepositoryPath, given what runCommand resolves to and the
\* working directory
getRepositoryPath(success, stdout, cwd) ==
    IF ~success
    THEN [path |-> <<>>, status |-> "error", error |-> "Not a git repository"]
    ELSE LET gitDir == Trim(stdout)
         IN  [path |-> IF gitDir = DotGit THEN cwd
                       ELSE IF EndsWith(gitDir, DotGit) THEN DropLast(gitDir, 5)
                       ELSE gitDir, status |-> "ok",
              error |-> ""]

\* a call of getRepositoryPath
GetRepositoryPath(success, stdout, cwd) ==
    /\ pathCall' = <<[stdout |-> stdout, result |-> getRepositoryPath(success, stdout, cwd),
                      cwd |-> cwd]>>
    /\ UNCHANGED <<repoLog, logCall, statusCall, analysis, storeVars, aiVars>>

----------------------------------------------------------------------------
(* GitAnalyzer.getCurrentBranch and GitAnalyzer.analyze                     *)

\* what runCommand resolves to
CommandResult(success, stdout) == [success |-> success, stdout |-> stdout]

\* String.prototype.startsWith
StartsWith(text, prefix) ==
    /\ Len(text) >= Len(prefix)
    /\ SubSeq(text, 1, Len(prefix)) = prefix

\* Array.prototype.find((line) => line.startsWith("*")): <<>> for undefined
FindCurrent(lines) ==
    LET Starred(line) == StartsWith(line, <<"*">>)
        found == SelectSeq(lines, Starred)
    IN  IF found = <<>> THEN <<>> ELSE <<found[1]>>

\* the outcome of one query of analyze
QueryOk(value) == [error |-> "", value |-> <<value>>, ok |-> TRUE]
QueryFailed(error) == [error |-> error, value |-> <<>>, ok |-> FALSE]

\* GitAnalyzer.getCurrentBranch, given what branch --show-current and the
\* branch list resolve to
getCurrentBranch(showCurrent, branchList) ==
    IF showCurrent.success /\ Trim(showCurrent.stdout) # <<>>
    THEN QueryOk(Trim(showCurrent.stdout))
    ELSE IF ~branchList.success THEN QueryFailed("Git command failed")
    ELSE LET currentBranchLine ==
                 FindCurrent(Split(branchList.stdout, <<NewLine>>))
         IN  IF currentBranchLine = <<>>
             THEN QueryFailed("Could not determine current branch")
             ELSE QueryOk(Trim(SubSeq(currentBranchLine[1], 3,
                                      Len(currentBranchLine[1]))))

\* the four queries of analyze, in the order of its Promise.all array
Queries == <<"currentBranch", "recentCommits", "workingDirectoryChanges",
             "repositoryPath">>

QuerySet == {Queries[i] : i \in DOMAIN Queries}

\* what git answers while one analyze runs: the two branch commands, and
\* whether the log, status and rev-parse commands succeed
GitAnswers ==
    [showCurrent : {CommandResult(TRUE, <<"m", NewLine>>),
                    CommandResult(TRUE, <<NewLine>>),
                    CommandResult(FALSE, <<>>)},
     branchList : {CommandResult(TRUE, <<" ", " ", "m", NewLine, "*", " ", "d", NewLine>>),
                   CommandResult(TRUE, <<" ", " ", "m", NewLine>>),
                   CommandResult(FALSE, <<>>)},
     log : BOOLEAN, status : BOOLEAN, revParse : BOOLEAN]

\* the history, the working tree and the directory the analysed repository has
AnalysedLog == <<RepoCommit(1, <<"s">>, <<>>)>>
AnalysedStatus == <<[path |-> StatusPath(1), x |-> " ", y |-> "M"]>>
AnalysedGitDir == <<"/", "p", "/">> \o DotGit \o <<NewLine>>

\* the outcome of query q of analyze(maxCommits) when git answers as given
QueryOutcome(q, maxCommits, answers) ==
    CASE q = "currentBranch" ->
            getCurrentBranch(answers.showCurrent, answers.branchList)
      [] q = "recentCommits" ->
            LET r == getRecentCommits(maxCommits, answers.log, AnalysedLog)
            IN  IF r.status = "ok" THEN QueryOk(r.commits)
                ELSE QueryFailed(r.error)
      [] q = "workingDirectoryChanges" ->
            LET r == getWorkingDirectoryChanges(answers.status,
                                                RenderStatus(AnalysedStatus))
            IN  IF r.status = "ok"
                THEN QueryOk([staged |-> r.staged, unstaged |-> r.unstaged,
                              untracked |-> r.untracked])
                ELSE QueryFailed("Git status command failed")
      [] q = "repositoryPath" ->
            LET r == getRepositoryPath(answers.revParse, AnalysedGitDir,
                                       <<"/", "p">>)
            IN  IF r.status = "ok" THEN QueryOk(r.path)
                ELSE QueryFailed(r.error)

\* the object analyze returns: the values in the order of the array, whatever
\* the order the queries completed in
GitContext(maxCommits, answers) ==
    [repositoryPath |-> QueryOutcome(Queries[4], maxCommits, answers).value[1],
     currentBranch |-> QueryOutcome(Queries[1], maxCommits, answers).value[1],
     recentCommits |-> QueryOutcome(Queries[2], maxCommits, answers).value[1],
     workingDirectoryChanges |->
         QueryOutcome(Queries[3], maxCommits, answers).value[1]]

AnalyzeFailed(error) == [status |-> "error", error |-> error, context |-> <<>>]
AnalyzeReturned(context) == [status |-> "ok", error |-> "", context |-> <<context>>]

\* a Promise.all that waits for every query and takes what there is
PromiseAll_allSettled(call, q) ==
    IF call.result # <<>> THEN call.result
    ELSE IF Len(call.completed) + 1 = Len(Queries)
    THEN IF \A i \in DOMAIN Queries :
                QueryOutcome(Queries[i], call.maxCommits, call.answers).ok
         THEN <<AnalyzeReturned(GitContext(call.maxCommits, call.answers))>>
         ELSE <<AnalyzeReturned(
                  [repositoryPath |-> <<>>, currentBranch |-> <<>>,
                   recentCommits |-> <<>>,
                   workingDirectoryChanges |->
                       [staged |-> <<>>, unstaged |-> <<>>, untracked |-> <<>>]])>>
    ELSE <<>>

\* Promise.all when query q completes: it rejects with the first rejection,
\* fulfils when the last query has fulfilled, and is settled once
PromiseAll(call, q) ==
    IF call.result # <<>> THEN call.result
    ELSE LET outcome == QueryOutcome(q, call.maxCommits, call.answers)
         IN  IF ~outcome.ok THEN <<AnalyzeFailed(outcome.error)>>
             ELSE IF Len(call.completed) + 1 = Len(Queries)
             THEN <<AnalyzeReturned(GitContext(call.maxCommits, call.answers))>>
             ELSE <<>>

\* GitAnalyzer.analyze(maxCommits) up to its await: the four queries start
StartAnalyze(maxCommits, answers) ==
    /\ IF analysis = <<>> THEN TRUE
       ELSE Len(analysis[1].completed) = Len(Queries)
    /\ analysis' = <<[maxCommits |-> maxCommits, result |-> <<>>,
                      answers |-> answers, completed |-> <<>>]>>
    /\ UNCHANGED <<repoLog, logCall, statusCall, pathCall, storeVars, aiVars>>

\* one of the queries completes, in whatever order the subprocesses finish
CompleteQuery(q) ==
    /\ analysis # <<>>
    /\ \A i \in 1..Len(analysis[1].completed) : analysis[1].completed[i] # q
    /\ analysis' = <<[analysis[1] EXCEPT
                         !.completed = Append(@, q),
                         !.result = PromiseAll(analysis[1], q)]>>
    /\ UNCHANGED <<repoLog, logCall, statusCall, pathCall, storeVars, aiVars>>

----------------------------------------------------------------------------
(* AIClient.analyzeContext: src/src/git/analyzer.ts                         *)
(* An error message is the sequence of the phrases it is made of.           *)

\* the credentials a client is built with: empty, whitespace only, a key
ApiKeys == {<<>>, <<" ">>, <<"k">>}

\* the text of a phrase contains the text needle (String.prototype.includes)
PhraseIncludes(phrase, needle) ==
    CASE needle = "OpenAI API" ->
            phrase \in {"OpenAI API key is required",
                        "OpenAI API rate limit exceeded. Please try again later.",
                        "OpenAI API error (",
                        "Failed to connect to OpenAI API: "}
      [] needle = "No response" -> phrase = "No response from AI"
      [] needle = "Failed to parse" ->
            phrase = "Failed to parse AI response: invalid JSON format"
      [] needle = "Invalid AI response format" ->
            phrase \in {"Invalid AI response format: missing required fields",
                        "Invalid AI response format: suggestedNextSteps and relatedFiles must be arrays"}

\* error.message.includes(needle)
MessageIncludes(message, needle) ==
    \E i \in 1..Len(message) : PhraseIncludes(message[i], needle)

\* a confidence score v stands for v / 10
Scores == {-5, 0, 5, 10, 15}

\* a JSON value in the place of the score: a number, or a string
NumberValue(v) == [value |-> v, type |-> "number"]
StringValue == [value |-> 0, type |-> "string"]

\* the JSON objects the model may answer with: each field absent (<<>>) or
\* present; the two list fields present as an array or as a string, the
\* score as a number or as a string
Documents ==
    [summary : {<<>>, <<"s">>},
     technicalContext : {<<>>, <<"t">>},
     suggestedNextSteps : {<<>>, <<"array">>},
     relatedFiles : {<<>>, <<"array">>},
     confidenceScore : {<<>>, <<StringValue>>, <<NumberValue(5)>>}]
    \cup
    [summary : {<<"s">>}, technicalContext : {<<"t">>},
     suggestedNextSteps : {<<"array">>, <<"string">>},
     relatedFiles : {<<"array">>, <<"string">>},
     confidenceScore : {<<NumberValue(v)>> : v \in Scores}]

\* choices[0].message.content: text that is not JSON, the JSON text null, or
\* the JSON text of an object
Contents ==
    {[kind |-> "notJson"], [kind |-> "null"]} \cup
    {[kind |-> "object", document |-> d] : d \in Documents}

\* the body of a 2xx response: not JSON, an object without choices, with an
\* empty choices array, or with a first choice holding a content
OkBodies ==
    {[kind |-> "notJson"], [kind |-> "noChoices"], [kind |-> "emptyChoices"]} \cup
    {[kind |-> "choice", content |-> c] : c \in Contents}

\* the body of an error response: not JSON (a proxy's HTML page, an empty
\* body), an object without error, or an object with error.message
ErrorBodies ==
    {[kind |-> "notJson"], [kind |-> "noError"],
     [message |-> "upstream message", kind |-> "error"]}

HttpErrorStatuses == {"401", "429", "500"}

\* what fetch does: it throws, or it resolves to a response
Exchanges ==
    {[kind |-> "throws"]} \cup
    {[kind |-> "response", status |-> "200", body |-> b] : b \in OkBodies} \cup
    {[kind |-> "response", status |-> s, body |-> b] :
        s \in HttpErrorStatuses, b \in ErrorBodies}

\* response.ok
ResponseOk(response) == response.status = "200"

AIFailure(message, requests) ==
    [message |-> message, status |-> "error", requests |-> requests,
     interpretation |-> <<>>]

AISuccess(interpretation) ==
    [message |-> <<>>, status |-> "ok", requests |-> 1,
     interpretation |-> <<interpretation>>]

\* the outer catch of analyzeContext: an error of the client's own is thrown
\* again, any other error is wrapped as a connection failure
OuterCatch(message) ==
    IF \/ MessageIncludes(message, "OpenAI API")
       \/ MessageIncludes(message, "No response")
       \/ MessageIncludes(message, "Failed to parse")
    THEN AIFailure(message, 1)
    ELSE AIFailure(<<"Failed to connect to OpenAI API: ">> \o message, 1)

\* the inner catch: a validation error is thrown again, any other error
\* becomes the parse error
InnerCatch(message) ==
    IF MessageIncludes(message, "Invalid AI response format")
    THEN OuterCatch(message)
    ELSE OuterCatch(<<"Failed to parse AI response: invalid JSON format">>)

\* Math.max(0, Math.min(1, score)), in tenths
Clamp(score) == IF score < 0 THEN 0 ELSE IF score > 10 THEN 10 ELSE score

\* validation without the clamp: an out-of-range score is rejected
ValidateDocument_rejectsRange(parsed) ==
    IF \/ parsed.summary = <<>> \/ parsed.technicalContext = <<>>
       \/ parsed.suggestedNextSteps = <<>> \/ parsed.relatedFiles = <<>>
       \/ parsed.confidenceScore \in {<<>>, <<StringValue>>}
       \/ parsed.confidenceScore[1].value < 0
       \/ parsed.confidenceScore[1].value > 10
    THEN InnerCatch(<<"Invalid AI response format: missing required fields">>)
    ELSE AISuccess(parsed)

\* validation that does not ask for technicalContext
ValidateDocument_skipsField(parsed) ==
    IF \/ parsed.summary = <<>>
       \/ parsed.suggestedNextSteps = <<>> \/ parsed.relatedFiles = <<>>
       \/ parsed.confidenceScore \in {<<>>, <<StringValue>>}
    THEN InnerCatch(<<"Invalid AI response format: missing required fields">>)
    ELSE AISuccess([parsed EXCEPT
                       !.confidenceScore =
                           <<NumberValue(Clamp(parsed.confidenceScore[1].value))>>])

\* the validation of the parsed document in analyzeContext
ValidateDocument(parsed) ==
    IF \/ parsed.summary = <<>> \/ parsed.technicalContext = <<>>
       \/ parsed.suggestedNextSteps = <<>> \/ parsed.relatedFiles = <<>>
       \/ parsed.confidenceScore \in {<<>>, <<StringValue>>}
    THEN InnerCatch(<<"Invalid AI response format: missing required fields">>)
    ELSE IF \/ parsed.suggestedNextSteps # <<"array">>
            \/ parsed.relatedFiles # <<"array">>
    THEN InnerCatch(<<"Invalid AI response format: suggestedNextSteps and relatedFiles must be arrays">>)
    ELSE AISuccess([parsed EXCEPT
                       !.confidenceScore =
                           <<NumberValue(Clamp(parsed.confidenceScore[1].value))>>])

\* the handling of a 2xx response
HandleOk(body) ==
    CASE body.kind = "notJson" -> OuterCatch(<<"Unexpected token">>)
      [] body.kind \in {"noChoices", "emptyChoices"} ->
            OuterCatch(<<"No response from AI">>)
      [] body.kind = "choice" ->
            CASE body.content.kind = "notJson" -> InnerCatch(<<"Unexpected token">>)
              [] body.content.kind = "null" ->
                    InnerCatch(<<"Cannot read properties of null">>)
              [] body.content.kind = "object" ->
                    ValidateDocument(body.content.document)

\* the handling of a response that is not ok: the body is read as JSON first
HandleError(status, body) ==
    IF body.kind = "notJson" THEN OuterCatch(<<"Unexpected token">>)
    ELSE IF status = "429"
    THEN OuterCatch(<<"OpenAI API rate limit exceeded. Please try again later.">>)
    ELSE OuterCatch(<<"OpenAI API error (", status, "): ",
                      IF body.kind = "error" THEN body.message
                      ELSE "Unknown error">>)

\* analyzeContext without the credential test
analyzeContext_noKeyCheck(apiKey, exchange) ==
    IF exchange.kind = "throws" THEN OuterCatch(<<"Network error">>)
    ELSE IF ~ResponseOk(exchange)
    THEN HandleError(exchange.status, exchange.body)
    ELSE HandleOk(exchange.body)

\* AIClient.analyzeContext for a client built with apiKey, when fetch does
\* what exchange says
analyzeContext(apiKey, exchange) ==
    IF apiKey = <<>> \/ Trim(apiKey) = <<>>
    THEN AIFailure(<<"OpenAI API key is required">>, 0)
    ELSE IF exchange.kind = "throws" THEN OuterCatch(<<"Network error">>)
    ELSE IF ~ResponseOk(exchange)
    THEN HandleError(exchange.status, exchange.body)
    ELSE HandleOk(exchange.body)

\* a call of analyzeContext
AnalyzeContext(apiKey, exchange) ==
    /\ aiCall' = <<[result |-> analyzeContext(apiKey, exchange), apiKey |-> apiKey,
                    exchange |-> exchange]>>
    /\ UNCHANGED <<gitVars, storeVars, aiClient>>

----------------------------------------------------------------------------
(* The working directory of a command: <<>> when it is outside any          *)
(* repository (git analysis fails), else <<the repository's root path>>.    *)

WorkingDirectories == {<<>>} \cup {<<p>> : p \in RepositoryPaths}

\* the objects passed to updateConfig: a field is absent (<<>>) or holds its
\* new value
NoUpdates ==
    [openaiApiKey |-> <<>>, maxCommits |-> <<>>, aiModel |-> <<>>,
     storagePath |-> <<>>, enableAI |-> <<>>]

ConfigUpdates ==
    [openaiApiKey : {<<>>, << <<(<<"k">>)>> >>},
     maxCommits : {<<>>, <<15>>},
     aiModel : {<<>>, <<"gpt-3.5-turbo">>},
     storagePath : {<<>>},
     enableAI : {<<>>, <<FALSE>>, <<TRUE>>}]

\* a merge that starts from the default settings instead of the current ones
MergeConfig_ontoDefaults(settings, updates) ==
    [f \in DOMAIN settings |->
        IF Len(updates[f]) = 1 THEN updates[f][1] ELSE DefaultConfig[f]]

\* { ...this.config, ...updates }
MergeConfig(settings, updates) ==
    [f \in DOMAIN settings |->
        IF Len(updates[f]) = 1 THEN updates[f][1] ELSE settings[f]]

\* what an operation reports; every operation overwrites it
Report(op) ==
    [id |-> 0,             \* the note id given to the operation
     op |-> op,
     note |-> <<>>,        \* saveWorkNote: <<the note given to it>>;
                           \* saveCommand: <<the note it built>>
     migrated |-> 0,       \* initialize: the count the migration logged
     branch |-> <<>>,      \* the branch option given to listCommand
     error |-> "",         \* save: the message of the error analyze threw
     updates |-> NoUpdates, \* the argument of updateConfig
     noAi |-> FALSE,       \* saveCommand: the noAi option
     ai |-> <<>>,          \* saveCommand: <<the analyzeContext call it made>>
     exit |-> 0,           \* the status a command exited with, 0 when it returned
     threw |-> FALSE,      \* saveWorkNote, updateConfig: the call threw
     key |-> "",           \* config set: the key
     requested |-> 0,      \* save: the number of commits asked of the git collector
     repo |-> <<>>,        \* the working directory of the command
     count |-> 0,          \* the count given to listCommand
     shown |-> <<>>,       \* the notes the command printed, in order
     gitStatus |-> "",     \* resume: "shown", "unable" or "" when not reached
     prev |-> -1]          \* initialize: migrated of the run just before, or -1

----------------------------------------------------------------------------
(* Operations of the store *)

\* Storage.initialize: loadConfig, then loadData
StorageInitialize ==
    LET c == loadConfig(configFile)
        d == loadData(dataFile)
    IN  /\ config' = c.config
        /\ configFile' = c.configFile
        /\ data' = d.data
        /\ dataFile' = d.dataFile
        /\ last' = [Report("initialize") EXCEPT
                       !.migrated = d.migrated,
                       !.prev = IF last.op = "initialize"
                                THEN last.migrated ELSE -1]
        /\ dataShape' = d.dataShape
        /\ UNCHANGED <<pending, peer>>

\* a call of Storage.initialize
Initialize ==
    /\ StorageInitialize
    /\ UNCHANGED <<gitVars, aiVars>>

\* Storage.saveWorkNote
SaveWorkNote(workNote) ==
    /\ Len(config) = 1
    /\ IF dataShape = "object"
       THEN /\ data' = PutNote(data, workNote)
            /\ dataFile' = saveData(data')
            /\ last' = [Report("saveWorkNote") EXCEPT
                           !.id = workNote.id, !.note = <<workNote>>]
       ELSE \* a property cannot be created on a number (strict mode)
            /\ last' = [Report("saveWorkNote") EXCEPT
                           !.id = workNote.id, !.note = <<workNote>>,
                           !.threw = TRUE]
            /\ UNCHANGED <<data, dataFile>>
    /\ UNCHANGED <<config, configFile, gitVars, aiVars, dataShape, pending,
                   peer>>

\* Storage.deleteWorkNote
DeleteWorkNote(id) ==
    /\ Len(config) = 1
    /\ IF IndexOf(data, id) # 0
       THEN /\ data' = RemoveNote(data, id)
            /\ dataFile' = saveData(data')
       ELSE UNCHANGED <<data, dataFile>>
    /\ last' = [Report("deleteWorkNote") EXCEPT !.id = id]
    /\ UNCHANGED <<config, configFile, gitVars, aiVars, dataShape, pending,
                   peer>>

----------------------------------------------------------------------------
(* Commands: src/src/cli/commands.ts *)

MaxSaves == 2    \* number of notes saveCommand creates

\* new Date().toISOString() at the successive runs of saveCommand
Clock ==
    <<"2025-01-15T10:00:00Z", "2025-01-15T11:00:00Z",
      "2025-01-15T12:00:00Z", "2025-01-15T13:00:00Z">>

\* a settings file that holds a credential (a text)
StoredConfig(openaiApiKey) ==
    [DefaultConfig EXCEPT !.openaiApiKey = <<openaiApiKey>>]

\* BrainCLI.initialize: Storage.initialize, then the client is built when the
\* settings hold a credential that is not the empty string and AI is enabled
CliInitialize ==
    /\ StorageInitialize
    /\ aiClient' =
          IF /\ config'[1].openaiApiKey # <<>>
             /\ config'[1].openaiApiKey[1] # <<>>
             /\ config'[1].enableAI
          THEN <<[apiKey |-> config'[1].openaiApiKey[1],
                  model |-> config'[1].aiModel]>>
          ELSE aiClient
    /\ UNCHANGED <<gitVars, aiCall>>

\* a saveCommand that asks whenever it holds a client
AIStep_clientOnly(noAi, exchange) ==
    IF ~noAi /\ aiClient # <<>>
    THEN <<[result |-> analyzeContext(aiClient[1].apiKey, exchange), apiKey |-> aiClient[1].apiKey,
            exchange |-> exchange]>>
    ELSE <<>>

\* saveCommand: the AI call it makes, <<>> when it makes none
AIStep(noAi, exchange) ==
    IF ~noAi /\ config[1].enableAI /\ aiClient # <<>>
    THEN <<[result |-> analyzeContext(aiClient[1].apiKey, exchange), apiKey |-> aiClient[1].apiKey,
            exchange |-> exchange]>>
    ELSE <<>>

\* a saveCommand that lets the error of the AI call reach its outer catch
CatchAIError_rethrows(ai) ==
    [aiInterpretation |-> IF ai # <<>> /\ ai[1].result.status = "ok"
                          THEN ai[1].result.interpretation ELSE <<>>,
     proceeds |-> ai = <<>> \/ ai[1].result.status = "ok"]

\* saveCommand: the try/catch around the AI call; the interpretation is set
\* when the call returns, an error is logged and the command goes on
CatchAIError(ai) ==
    [aiInterpretation |-> IF ai # <<>> /\ ai[1].result.status = "ok"
                          THEN ai[1].result.interpretation ELSE <<>>,
     proceeds |-> TRUE]

\* the messages of the errors analyze rejects with outside a repository or
\* when a git command fails; git's stderr is part of the message
GitErrors ==
    {"Git command failed: fatal: not a git repository",
     "Git log command failed: fatal: not a git repository",
     "Git status command failed: fatal: not a git repository",
     "Not a git repository: fatal: not a git repository",
     "Git log command failed: ",
     "Not a git repository: "}

\* error.message.includes("not a git repository")
SaysNotRepository(error) ==
    error \in {"Git command failed: fatal: not a git repository",
               "Git log command failed: fatal: not a git repository",
               "Git status command failed: fatal: not a git repository",
               "Not a git repository: fatal: not a git repository"}

\* a catch that exits only for the error it has guidance for
SaveExit_onlyGuided(error) == IF SaysNotRepository(error) THEN 1 ELSE 0

\* the outer catch of saveCommand: the status it exits with
SaveExit(error) == IF SaysNotRepository(error) THEN 1 ELSE 1

\* saveCommand: the argument of this.gitAnalyzer.analyze
AnalyzeDepth == 10

\* saveCommand: the number of commits it asks the git collector for
AnalyzeArgument(settings) == AnalyzeDepth

\* BrainCLI.saveCommand(message, {noAi}) run in working directory repo, when
\* fetch does what exchange says; outside a repository the git analysis
\* throws and the command exits with status 1
SaveCommand(noAi, repo, exchange) ==
    /\ Len(config) = 1
    /\ Len(data) < MaxSaves
    /\ IF repo = <<>>
       THEN /\ \E error \in GitErrors :
                  last' = [Report("save") EXCEPT
                              !.repo = repo, !.noAi = noAi, !.error = error,
                              !.exit = SaveExit(error),
                              !.requested = AnalyzeArgument(config[1])]
            /\ UNCHANGED <<data, dataFile>>
       ELSE LET id == Len(data) + 1
                workNote == [WorkNote(id, Clock[id], repo,
                                      <<RepositoryInfo(repo[1])>>)
                                EXCEPT !.aiInterpretation = <<>>]
                ai == AIStep(noAi, exchange)
                caught == CatchAIError(ai)
            IN  IF caught.proceeds /\ dataShape = "object"
                THEN /\ data' = PutNote(data,
                            [workNote EXCEPT
                                !.aiInterpretation = caught.aiInterpretation])
                     /\ dataFile' = saveData(data')
                     /\ last' = [Report("save") EXCEPT
                                    !.id = id, !.repo = repo, !.noAi = noAi,
                                    !.note = <<workNote>>, !.ai = ai,
                                    !.requested = AnalyzeArgument(config[1])]
                ELSE /\ last' = [Report("save") EXCEPT
                                    !.id = id, !.repo = repo, !.noAi = noAi,
                                    !.note = <<workNote>>, !.ai = ai,
                                    !.requested = AnalyzeArgument(config[1]),
                                    !.exit = 1]
                     /\ UNCHANGED <<data, dataFile>>
    /\ UNCHANGED <<config, configFile, gitVars, aiVars, dataShape, pending,
                   peer>>

\* BrainCLI.resumeCommand, run in working directory repo
ResumeCommand(repo) ==
    LET latestNote == getLatestWorkNote
    IN  /\ Len(config) = 1
        /\ last' = [Report("resume") EXCEPT
                       !.repo = repo,
                       !.shown = latestNote,
                       !.gitStatus = IF latestNote = <<>> THEN ""
                                     ELSE IF repo = <<>> THEN "unable"
                                     ELSE "shown"]
        /\ UNCHANGED <<config, configFile, data, dataFile, gitVars, aiVars,
                       dataShape, pending,
                   peer>>

\* BrainCLI.listCommand(count, {branch}), run in working directory repo
ListCommand(count, branch, repo) ==
    LET notes == IF Truthy(branch)
                 THEN Slice(getWorkNotesByBranch(branch[1]), count)
                 ELSE getRecentWorkNotes(count, <<>>)
    IN  /\ Len(config) = 1
        /\ last' = [Report("list") EXCEPT
                       !.repo = repo, !.count = count, !.branch = branch,
                       !.shown = notes]
        /\ UNCHANGED <<config, configFile, data, dataFile, gitVars, aiVars,
                       dataShape, pending,
                   peer>>

\* the notes the tests save before they query: one repository, any time of
\* the clock
RecentNotes(id) ==
    {WorkNote(id, Clock[k], <<"/a">>, <<RepositoryInfo("/a")>>) :
        k \in DOMAIN Clock}

\* a call of Storage.getRecentWorkNotes(limit)
GetRecentWorkNotes(limit) ==
    /\ Len(config) = 1
    /\ last' = [Report("getRecentWorkNotes") EXCEPT
                   !.count = limit,
                   !.shown = getRecentWorkNotes(limit, <<>>)]
    /\ UNCHANGED <<config, configFile, data, dataFile, gitVars, aiVars,
                   dataShape, pending,
                   peer>>

\* a call of Storage.getLatestWorkNote
GetLatestWorkNote ==
    /\ Len(config) = 1
    /\ last' = [Report("getLatestWorkNote") EXCEPT
                   !.shown = getLatestWorkNote]
    /\ UNCHANGED <<config, configFile, data, dataFile, gitVars, aiVars,
                   dataShape, pending,
                   peer>>

\* the notes of the concurrent saves: one repository, two creation times
ConcurrentNotes(id) ==
    {WorkNote(id, t, <<"/a">>, <<RepositoryInfo("/a")>>) : t \in Timestamps}

\* the ids of the saveWorkNote calls the caller holds promises of
PendingIds == {p.note.id : p \in pending}

\* a store that is read back from the file once the write has landed
AfterSaveData_reloaded(workNotes, written) == written.workNotes

\* the collection in memory when the awaited saveData has resolved:
\* saveWorkNote assigns nothing after the await
AfterSaveData(workNotes, written) == workNotes

\* Storage.saveWorkNote up to its await: the note is put into the collection
\* and writeTextFile is called with the text JSON.stringify made of the
\* collection as it is now
BeginSaveWorkNote(workNote) ==
    /\ Len(config) = 1
    /\ dataShape = "object"
    /\ workNote.id \notin PendingIds
    /\ data' = PutNote(data, workNote)
    /\ pending' = pending \cup
                     {[note |-> workNote, written |-> saveData(data'),
                       resolved |-> FALSE]}
    /\ last' = [Report("saveWorkNote") EXCEPT
                   !.id = workNote.id, !.note = <<workNote>>]
    /\ UNCHANGED <<config, configFile, dataFile, gitVars, aiVars, dataShape,
                   peer>>

\* the write of one pending call lands, in whatever order the runtime
\* finishes the writes, and the call's promise resolves
CompleteSaveWorkNote(p) ==
    /\ p \in pending
    /\ ~p.resolved
    /\ dataFile' = p.written
    /\ data' = AfterSaveData(data, p.written)
    /\ pending' = (pending \ {p}) \cup {[p EXCEPT !.resolved = TRUE]}
    /\ last' = [Report("resolved") EXCEPT !.id = p.note.id]
    /\ UNCHANGED <<config, configFile, gitVars, aiVars, dataShape, peer>>

\* Storage.deleteWorkNote up to its await: a note the collection holds is
\* removed and writeTextFile is called with the text of the collection as it
\* is now; for an id the collection lacks nothing is written
BeginDeleteWorkNote(id) ==
    /\ Len(config) = 1
    /\ dataShape = "object"
    /\ IF IndexOf(data, id) # 0
       THEN /\ data' = RemoveNote(data, id)
            /\ pending' = pending \cup
                             {[note |-> data[IndexOf(data, id)],
                               written |-> saveData(data'),
                               resolved |-> FALSE]}
       ELSE UNCHANGED <<data, pending>>
    /\ last' = [Report("deleteWorkNote") EXCEPT !.id = id]
    /\ UNCHANGED <<config, configFile, dataFile, gitVars, aiVars, dataShape,
                   peer>>

\* await Promise.all(promises): every call has resolved, the caller goes on
AwaitAll ==
    /\ pending # {}
    /\ \A p \in pending : p.resolved
    /\ pending' = {}
    /\ last' = Report("awaitAll")
    /\ UNCHANGED <<config, configFile, data, dataFile, gitVars, aiVars,
                   dataShape, peer>>

\* Storage.updateConfig(updates); saveConfig writes the settings as JSON
UpdateConfig(updates) ==
    /\ IF Len(config) = 0
       THEN \* throw new Error("Storage not initialized")
            /\ last' = [Report("updateConfig") EXCEPT
                           !.updates = updates, !.threw = TRUE]
            /\ UNCHANGED <<config, configFile>>
       ELSE /\ config' = <<MergeConfig(config[1], updates)>>
            /\ configFile' = config'
            /\ last' = [Report("updateConfig") EXCEPT !.updates = updates]
    /\ UNCHANGED <<data, dataFile, gitVars, aiVars, dataShape, pending,
                   peer>>

\* a document with every field, as the model is asked to write it
CompleteDocument ==
    [summary |-> <<"s">>, confidenceScore |-> <<NumberValue(5)>>,
     technicalContext |-> <<"t">>, suggestedNextSteps |-> <<"array">>,
     relatedFiles |-> <<"array">>]

\* what fetch does in the runs of the commands: it throws, the API limits
\* the rate, the API answers with a complete document
CliExchanges ==
    {[kind |-> "throws"],
     [kind |-> "response", status |-> "429", body |-> [kind |-> "noError"]],
     [kind |-> "response", status |-> "200",
      body |-> [kind |-> "choice",
                content |-> [kind |-> "object", document |-> CompleteDocument]]]}

\* brain config set <key> <value>: the update a valid value makes, and
\* whether the value passes the command's validation
ConfigSettings ==
    {[updates |-> [NoUpdates EXCEPT !.openaiApiKey = << <<(<<"k">>)>> >>], key |-> "openai-key",
      valid |-> TRUE],
     [updates |-> NoUpdates, key |-> "openai-key", valid |-> FALSE],
     [updates |-> [NoUpdates EXCEPT !.maxCommits = <<15>>], key |-> "max-commits",
      valid |-> TRUE],
     [updates |-> NoUpdates, key |-> "max-commits", valid |-> FALSE],
     [updates |-> [NoUpdates EXCEPT !.aiModel = <<"gpt-3.5-turbo">>], key |-> "ai-model",
      valid |-> TRUE],
     [updates |-> [NoUpdates EXCEPT !.enableAI = <<TRUE>>], key |-> "enable-ai",
      valid |-> TRUE],
     [updates |-> [NoUpdates EXCEPT !.enableAI = <<FALSE>>], key |-> "enable-ai",
      valid |-> TRUE],
     [updates |-> NoUpdates, key |-> "enable-ai", valid |-> FALSE]}

\* new AIClient(...) of BrainCLI.initialize, for the settings just loaded
ClientFor(settings, client) ==
    IF /\ settings.openaiApiKey # <<>>
       /\ settings.openaiApiKey[1] # <<>>
       /\ settings.enableAI
    THEN <<[apiKey |-> settings.openaiApiKey[1], model |-> settings.aiModel]>>
    ELSE client

\* BrainCLI.configCommand("set", key, value): an invalid value exits with
\* status 1; a valid one is merged into the settings and saved, and for
\* openai-key and ai-model the instance initializes again
ConfigSet(setting) ==
    /\ Len(config) = 1
    /\ IF ~setting.valid
       THEN /\ last' = [Report("configSet") EXCEPT
                           !.key = setting.key, !.exit = 1]
            /\ UNCHANGED <<config, configFile, data, dataFile, dataShape,
                           aiClient>>
       ELSE /\ last' = [Report("configSet") EXCEPT
                           !.key = setting.key, !.updates = setting.updates]
            /\ LET merged == <<MergeConfig(config[1], setting.updates)>>
               IN  IF setting.key \in {"openai-key", "ai-model"}
                THEN LET c == loadConfig(merged)
                         d == loadData(dataFile)
                     IN  /\ config' = c.config
                         /\ configFile' = c.configFile
                         /\ data' = d.data
                         /\ dataFile' = d.dataFile
                         /\ dataShape' = d.dataShape
                         /\ aiClient' = ClientFor(c.config[1], aiClient)
                ELSE /\ config' = merged
                     /\ configFile' = merged
                     /\ UNCHANGED <<data, dataFile, dataShape, aiClient>>
    /\ UNCHANGED <<gitVars, aiCall, pending, peer>>

\* the note a test saves under a given id
PeerNotes(id) == {WorkNote(id, Clock[id], <<"/a">>, <<RepositoryInfo("/a")>>)}

\* a save that reads the notes file again and adds its collection to it
WrittenByPeer_merging(own, onDisk) ==
    LET Missing(note) == IndexOf(own, note.id) = 0
    IN  saveData(SelectSeq(onDisk.workNotes, Missing) \o own)

\* saveData of an instance: the whole of its own collection, whatever the
\* notes file holds
WrittenByPeer(own, onDisk) == saveData(own)

\* Storage.initialize of the second instance
PeerInitialize ==
    LET c == loadConfig(configFile)
        d == loadData(dataFile)
    IN  /\ configFile' = c.configFile
        /\ dataFile' = d.dataFile
        /\ peer' = <<[workNotes |-> d.data, shape |-> d.dataShape]>>
        /\ last' = Report("peerInitialize")
        /\ UNCHANGED <<config, data, gitVars, aiVars, dataShape, pending>>

\* Storage.saveWorkNote of the second instance
PeerSaveWorkNote(workNote) ==
    /\ Len(peer) = 1
    /\ IF peer[1].shape = "object"
       THEN /\ peer' = <<[peer[1] EXCEPT
                            !.workNotes = PutNote(peer[1].workNotes, workNote)]>>
            /\ dataFile' = WrittenByPeer(peer'[1].workNotes, dataFile)
            /\ last' = [Report("peerSaveWorkNote") EXCEPT
                           !.id = workNote.id, !.note = <<workNote>>]
       ELSE /\ last' = [Report("peerSaveWorkNote") EXCEPT
                           !.id = workNote.id, !.note = <<workNote>>,
                           !.threw = TRUE]
            /\ UNCHANGED <<peer, dataFile>>
    /\ UNCHANGED <<config, configFile, data, gitVars, aiVars, dataShape,
                   pending>>

----------------------------------------------------------------------------
(* The store and its commands *)

Init ==
    /\ config = <<>>
    /\ configFile = <<>>
    /\ data = <<>>
    /\ dataFile \in {MissingFile, CorruptFile} \cup
                    {JsonFile(c) : c \in FileCollections(MaxNotes)}
    /\ last = Report("new")
    /\ repoLog = <<>>
    /\ logCall = <<>>
    /\ statusCall = <<>>
    /\ pathCall = <<>>
    /\ analysis = <<>>
    /\ aiClient = <<>>
    /\ aiCall = <<>>
    /\ dataShape = "object"
    /\ pending = {}
    /\ peer = <<>>

Next ==
    \/ Initialize
    \/ \E id \in NoteIds : \E workNote \in TypedNotes(id) : SaveWorkNote(workNote)
    \/ \E id \in NoteIds : DeleteWorkNote(id)
    \/ \E repo \in WorkingDirectories : ResumeCommand(repo)
    \/ \E count \in 1..MaxCount :
         \E branch \in BranchOptions :
           \E repo \in WorkingDirectories : ListCommand(count, branch, repo)

Spec == Init /\ [][Next]_vars

----------------------------------------------------------------------------
(* The git log collector over the histories of a repository *)

InitLog ==
    /\ config = <<>>
    /\ configFile = <<>>
    /\ data = <<>>
    /\ dataFile = MissingFile
    /\ last = Report("new")
    /\ repoLog \in Histories(MaxLog)
    /\ logCall = <<>>
    /\ statusCall = <<>>
    /\ pathCall = <<>>
    /\ analysis = <<>>
    /\ aiClient = <<>>
    /\ aiCall = <<>>
    /\ dataShape = "object"
    /\ pending = {}
    /\ peer = <<>>

NextLog ==
    \E maxCommits \in -1..(MaxLog + 1) : \E success \in BOOLEAN :
        GetRecentCommits(maxCommits, success)

SpecLog == InitLog /\ [][NextLog]_vars

----------------------------------------------------------------------------
(* The status collector over the status reports of a working tree *)

InitStatus ==
    /\ config = <<>>
    /\ configFile = <<>>
    /\ data = <<>>
    /\ dataFile = MissingFile
    /\ last = Report("new")
    /\ repoLog = <<>>
    /\ logCall = <<>>
    /\ statusCall = <<>>
    /\ pathCall = <<>>
    /\ analysis = <<>>
    /\ aiClient = <<>>
    /\ aiCall = <<>>
    /\ dataShape = "object"
    /\ pending = {}
    /\ peer = <<>>

NextStatus ==
    \E success \in BOOLEAN : \E entries \in StatusReports(MaxStatus) :
        GetWorkingDirectoryChanges(success, entries)

SpecStatus == InitStatus /\ [][NextStatus]_vars

----------------------------------------------------------------------------
(* The AI client over the exchanges fetch can have *)

NextAI ==
    \E apiKey \in ApiKeys : \E exchange \in Exchanges :
        AnalyzeContext(apiKey, exchange)

SpecAI == InitStatus /\ [][NextAI]_vars

----------------------------------------------------------------------------
(* The save command with the AI client *)

InitSave ==
    /\ config = <<>>
    /\ configFile \in {<<>>} \cup {<<StoredConfig(k)>> : k \in ApiKeys}
    /\ data = <<>>
    /\ dataFile = MissingFile
    /\ last = Report("new")
    /\ repoLog = <<>>
    /\ logCall = <<>>
    /\ statusCall = <<>>
    /\ pathCall = <<>>
    /\ analysis = <<>>
    /\ aiClient = <<>>
    /\ aiCall = <<>>
    /\ dataShape = "object"
    /\ pending = {}
    /\ peer = <<>>

NextSave ==
    \/ CliInitialize
    \/ \E noAi \in BOOLEAN : \E repo \in {<<>>, <<"/a">>} :
         \E exchange \in Exchanges : SaveCommand(noAi, repo, exchange)

SpecSave == InitSave /\ [][NextSave]_vars

----------------------------------------------------------------------------
(* The store over notes files that hold no collection *)

\* the notes files without a well-formed collection
BadFiles ==
    {MissingFile, CorruptFile, NullFile, NoWorkNotesFile, NumberWorkNotesFile,
     ScalarNotesFile}

InitCorrupt ==
    /\ config = <<>>
    /\ configFile = <<>>
    /\ data = <<>>
    /\ dataFile \in BadFiles
    /\ last = Report("new")
    /\ repoLog = <<>>
    /\ logCall = <<>>
    /\ statusCall = <<>>
    /\ pathCall = <<>>
    /\ analysis = <<>>
    /\ aiClient = <<>>
    /\ aiCall = <<>>
    /\ dataShape = "object"
    /\ pending = {}
    /\ peer = <<>>

NextCorrupt ==
    \/ Initialize
    \/ \E id \in NoteIds : \E workNote \in TypedNotes(id) : SaveWorkNote(workNote)
    \/ \E id \in NoteIds : DeleteWorkNote(id)

SpecCorrupt == InitCorrupt /\ [][NextCorrupt]_vars

----------------------------------------------------------------------------
(* The queries for the newest notes *)

NextRecent ==
    \/ Initialize
    \/ \E id \in NoteIds : \E workNote \in RecentNotes(id) : SaveWorkNote(workNote)
    \/ \E limit \in 1..(MaxNotes + 1) : GetRecentWorkNotes(limit)
    \/ GetLatestWorkNote

SpecRecent == InitSave /\ [][NextRecent]_vars

----------------------------------------------------------------------------
(* Saves started without awaiting one another *)

NextConcurrent ==
    \/ Len(config) = 0 /\ Initialize
    \/ \E id \in NoteIds :
         \E workNote \in ConcurrentNotes(id) : BeginSaveWorkNote(workNote)
    \/ \E p \in pending : CompleteSaveWorkNote(p)
    \/ AwaitAll

SpecConcurrent == InitSave /\ [][NextConcurrent]_vars

----------------------------------------------------------------------------
(* Saves and deletions started without awaiting one another *)

MaxPending == 2  \* number of calls the caller starts before awaiting them

NextInterleaved ==
    \/ Len(config) = 0 /\ Initialize
    \/ /\ Cardinality(pending) < MaxPending
       /\ \E id \in NoteIds :
            \E workNote \in ConcurrentNotes(id) : BeginSaveWorkNote(workNote)
    \/ /\ Cardinality(pending) < MaxPending
       /\ \E id \in NoteIds : BeginDeleteWorkNote(id)
    \/ \E p \in pending : CompleteSaveWorkNote(p)
    \/ AwaitAll

SpecInterleaved == InitSave /\ [][NextInterleaved]_vars

----------------------------------------------------------------------------
(* The settings *)

NextConfig ==
    \/ Initialize
    \/ \E updates \in ConfigUpdates : UpdateConfig(updates)
    \/ \E id \in NoteIds :
         SaveWorkNote(WorkNote(id, Clock[id], <<"/a">>, <<RepositoryInfo("/a")>>))

SpecConfig == InitSave /\ [][NextConfig]_vars

----------------------------------------------------------------------------
(* The repository path of the git collector *)

NextPath ==
    \E success \in BOOLEAN : \E stdout \in LocationOutputs :
        \E cwd \in WorkingDirectoryTexts : GetRepositoryPath(success, stdout, cwd)

SpecPath == InitStatus /\ [][NextPath]_vars

----------------------------------------------------------------------------
(* The save command with the settings command *)

NextCli ==
    \/ CliInitialize
    \/ \E setting \in ConfigSettings : ConfigSet(setting)
    \/ \E noAi \in BOOLEAN : \E repo \in {<<>>, <<"/a">>} :
         \E exchange \in CliExchanges : SaveCommand(noAi, repo, exchange)

SpecCli == InitSave /\ [][NextCli]_vars

----------------------------------------------------------------------------
(* Two instances of the store on one directory *)

NextPeers ==
    \/ Initialize
    \/ PeerInitialize
    \/ \E id \in NoteIds : \E workNote \in PeerNotes(id) : SaveWorkNote(workNote)
    \/ \E id \in NoteIds : \E workNote \in PeerNotes(id) : PeerSaveWorkNote(workNote)

SpecPeers == InitSave /\ [][NextPeers]_vars

----------------------------------------------------------------------------
(* The four queries of analyze *)

NextAnalyze ==
    \/ \E answers \in GitAnswers : StartAnalyze(AnalyzeDepth, answers)
    \/ \E q \in QuerySet : CompleteQuery(q)

SpecAnalyze == InitStatus /\ [][NextAnalyze]_vars

----------------------------------------------------------------------------
(* Properties of the store and its commands *)

\* the note carries a descriptor whose identifier is r
HasIdentifier(note, r) ==
    /\ Len(note.repositoryInfo) = 1
    /\ note.repositoryInfo[1].identifier = r

\* no note of the collection is newer than note
NewestOf(note, notes) ==
    \A i \in 1..Len(notes) : getTime(notes[i].timestamp) <= getTime(note.timestamp)

\* the notes of the store whose identifier is r, in store order
NotesOf(r) ==
    LET Mine(note) == HasIdentifier(note, r)
    IN  SelectSeq(data, Mine)

\* the step just taken is a run of Storage.initialize
InitializeStep == last'.op = "initialize"

\* the positions of the notes file whose note lacks a descriptor
Lacking(file) ==
    {i \in 1..Len(file.workNotes) : Len(file.workNotes[i].repositoryInfo) = 0}

\* C1: for every identifier A, getLastWorkNote(A) returns a newest note among
\* the notes whose identifier is A and never a note of another identifier,
\* and it returns null when no note has identifier A.
C1_LastWorkNoteIsolated ==
    \A A \in RepositoryPaths :
        LET result == getLastWorkNote(<<A>>)
        IN  IF NotesOf(A) = <<>>
            THEN result = <<>>
            ELSE /\ Len(result) = 1
                 /\ HasIdentifier(result[1], A)
                 /\ NewestOf(result[1], NotesOf(A))

\* C2: a resume or list command run inside repository R shows only notes
\* whose identifier is R; resume shows a newest note of R when R has notes.
C2_CommandsScopedToRepository ==
    (last.op \in {"resume", "list"} /\ last.repo # <<>>) =>
        /\ \A i \in 1..Len(last.shown) : HasIdentifier(last.shown[i], last.repo[1])
        /\ (last.op = "resume" /\ NotesOf(last.repo[1]) # <<>>) =>
              /\ Len(last.shown) = 1
              /\ NewestOf(last.shown[1], NotesOf(last.repo[1]))

\* a note of the store is listed unless count notes at least as new are
C3_Listed(note) ==
    \/ \E i \in 1..Len(last.shown) : last.shown[i] = note
    \/ /\ Len(last.shown) = last.count
       /\ \A i \in 1..Len(last.shown) :
              getTime(last.shown[i].timestamp) >= getTime(note.timestamp)

\* C3: outside any repository, resume shows a note with the greatest
\* timestamp among the notes of all repositories (nothing when the store is
\* empty), and list leaves out no note because of its repository: every note
\* (of the requested branch, when one is given) is listed unless count notes
\* at least as new are listed.
C3_GlobalOutsideRepository ==
    /\ (last.op = "resume" /\ last.repo = <<>>) =>
          IF data = <<>> THEN last.shown = <<>>
          ELSE /\ Len(last.shown) = 1
               /\ \E i \in 1..Len(data) : data[i] = last.shown[1]
               /\ NewestOf(last.shown[1], data)
    /\ (last.op = "list" /\ last.repo = <<>>) =>
          /\ \A i \in 1..Len(last.shown) :
                \E j \in 1..Len(data) : data[j] = last.shown[i]
          /\ \A j \in 1..Len(data) :
                (last.branch = <<>> \/
                 data[j].gitContext.currentBranch = last.branch[1])
                    => C3_Listed(data[j])

\* resume outside any repository showed the note of one repository although
\* the store also holds an older note of another repository
C3_Witness ==
    /\ last.op = "resume" /\ last.repo = <<>>
    /\ Len(last.shown) = 1
    /\ \E i \in 1..Len(data) :
          /\ data[i].repositoryInfo # last.shown[1].repositoryInfo
          /\ getTime(data[i].timestamp) < getTime(last.shown[1].timestamp)

\* C4: after saveWorkNote(n), getWorkNote(n.id) returns a record equal to n
\* in id, message, timestamp, git snapshot and descriptor; a note in the
\* store is returned unchanged by every step that is not a save or delete of
\* its id; getWorkNote of an id that is not in the store returns null.
C4_RoundTrip ==
    [][/\ last'.op = "saveWorkNote" =>
            \A id \in NoteIds : id = last'.note[1].id =>
                LET n == last'.note[1]
                IN  /\ Len(getWorkNote(id)') = 1
                    /\ getWorkNote(id)'[1].id = n.id
                    /\ getWorkNote(id)'[1].message = n.message
                    /\ getWorkNote(id)'[1].timestamp = n.timestamp
                    /\ getWorkNote(id)'[1].gitContext = n.gitContext
                    /\ getWorkNote(id)'[1].repositoryInfo = n.repositoryInfo
       \* getWorkNote reads only data: a step that leaves data alone changes
       \* no result
       /\ data' # data =>
            \A id \in NoteIds :
                (/\ getWorkNote(id) # <<>>
                 /\ ~(last'.op \in {"saveWorkNote", "deleteWorkNote"} /\ last'.id = id))
                    => getWorkNote(id)' = getWorkNote(id)
       /\ \A id \in NoteIds :
            (\A i \in 1..Len(data') : data'[i].id # id) => getWorkNote(id)' = <<>>
      ]_vars

\* a save has overwritten nothing of the other note the store holds
C4_Witness ==
    /\ last.op = "saveWorkNote"
    /\ Len(getWorkNote(last.id)) = 1
    /\ Len(data) >= 2

\* C5: a run of initialize on a notes file in which every note has a
\* descriptor leaves the collection and the file as they are and reports no
\* migration; a run of initialize after an earlier one migrates nothing and
\* leaves the notes file unchanged.
C5_MigrationIdempotent ==
    [][InitializeStep =>
         /\ (dataFile.kind = "json" /\ Lacking(dataFile) = {}) =>
               /\ data' = dataFile.workNotes
               /\ dataFile' = dataFile
               /\ last'.migrated = 0
         /\ Len(config) = 1 =>
               /\ last'.migrated = 0
               /\ dataFile' = dataFile
               /\ data' = data
      ]_vars

\* initialize ran right after a run that migrated notes, and migrated none
C5_Witness ==
    /\ last.op = "initialize"
    /\ last.prev > 0
    /\ last.migrated = 0
    /\ data # <<>>

\* the descriptor the claim gives a note that lacks one: path and identifier
\* equal to the snapshot's repository path, "unknown" when the path is absent
C6_DescriptorAsStated(note) ==
    LET p == IF note.gitContext.repositoryPath = <<>> THEN "unknown"
             ELSE note.gitContext.repositoryPath[1]
    IN  <<[path |-> p, identifier |-> p]>>

\* C6 as stated: on load every note lacking a descriptor receives one whose
\* path and identifier equal its snapshot's repository path, or "unknown"
\* when that path is absent; the count reported equals the number lacking.
C6_MigrationAsStated ==
    [][(InitializeStep /\ dataFile.kind = "json") =>
         /\ Len(data') = Len(dataFile.workNotes)
         /\ \A i \in Lacking(dataFile) :
               data'[i].repositoryInfo = C6_DescriptorAsStated(dataFile.workNotes[i])
         /\ last'.migrated = Cardinality(Lacking(dataFile))
      ]_vars

\* the descriptor the code gives: "unknown" also when the path is empty
C6_DescriptorAmended(note) ==
    LET p == IF note.gitContext.repositoryPath \in {<<>>, <<"">>} THEN "unknown"
             ELSE note.gitContext.repositoryPath[1]
    IN  <<[path |-> p, identifier |-> p]>>

\* C6 amended: on load every note lacking a descriptor receives one whose
\* path and identifier equal its snapshot's repository path, or "unknown"
\* when that path is absent or the empty string; the count reported equals
\* the number of notes that lacked a descriptor.
C6_MigrationAmended ==
    [][(InitializeStep /\ dataFile.kind = "json") =>
         /\ Len(data') = Len(dataFile.workNotes)
         /\ \A i \in Lacking(dataFile) :
               data'[i].repositoryInfo = C6_DescriptorAmended(dataFile.workNotes[i])
         /\ last'.migrated = Cardinality(Lacking(dataFile))
      ]_vars

\* a load migrated two notes: one to its snapshot's path, one to "unknown"
C6_Witness ==
    /\ last.op = "initialize"
    /\ last.migrated = 2
    /\ \E i, j \in 1..Len(data) :
          /\ data[i].repositoryInfo = <<[path |-> "unknown", identifier |-> "unknown"]>>
          /\ data[j].repositoryInfo = <<[path |-> "/a", identifier |-> "/a"]>>

\* C7: once initialize has completed, every note the store holds has
\* exactly one repository descriptor.
C7_EveryNoteHasDescriptor ==
    Len(config) = 1 =>
        \A i \in 1..Len(data) : Len(data[i].repositoryInfo) = 1

\* a note was saved into a store that holds a migrated note
C7_Witness ==
    /\ Len(config) = 1
    /\ last.op = "saveWorkNote"
    /\ \E i, j \in 1..Len(data) :
          /\ HasIdentifier(data[i], "unknown")
          /\ data[j].id = last.id
          /\ i # j

\* C8: migration on load adds or removes no note, leaves every note that has
\* a descriptor unchanged, and leaves id, message, timestamp, git snapshot
\* and interpretation of every migrated note unchanged.
C8_MigrationFrame ==
    [][(InitializeStep /\ dataFile.kind = "json") =>
         /\ Len(data') = Len(dataFile.workNotes)
         /\ \A i \in 1..Len(dataFile.workNotes) :
               LET old == dataFile.workNotes[i]
                   new == data'[i]
               IN  /\ Len(old.repositoryInfo) = 1 => new = old
                   /\ new.id = old.id
                   /\ new.message = old.message
                   /\ new.timestamp = old.timestamp
                   /\ new.gitContext = old.gitContext
                   /\ new.aiInterpretation = old.aiInterpretation
      ]_vars

\* a load migrated one of two notes, and the store holds an interpretation
C8_Witness ==
    /\ last.op = "initialize"
    /\ last.migrated = 1
    /\ Len(data) = 2
    /\ \E i \in 1..Len(data) : Len(data[i].aiInterpretation) = 1

----------------------------------------------------------------------------
(* Properties of the git log collector *)

\* the position in the repository's history of the commit with this hash
LogIndex(hash) ==
    IF \E k \in 1..Len(repoLog) : repoLog[k].hash = hash
    THEN CHOOSE k \in 1..Len(repoLog) : repoLog[k].hash = hash
    ELSE 0

\* the records are commits among the first maxCommits of the history, in the
\* order of the history (most recent first)
C10_InLogOrder(commits, maxCommits) ==
    /\ \A i \in 1..Len(commits) :
          LogIndex(commits[i].hash) \in 1..maxCommits
    /\ \A i, j \in 1..Len(commits) :
          i < j => LogIndex(commits[i].hash) < LogIndex(commits[j].hash)

\* C9: getRecentCommits(N) with N <= 0 fails with the validation error
\* "maxCommits must be positive" and starts no git subprocess.
C9_NonPositiveRejected ==
    (logCall # <<>> /\ logCall[1].maxCommits <= 0) =>
        /\ logCall[1].status = "error"
        /\ logCall[1].error = "maxCommits must be positive"
        /\ logCall[1].runs = 0
        /\ logCall[1].commits = <<>>

\* getRecentCommits(0) was called in a repository that has commits
C9_Witness ==
    /\ logCall # <<>>
    /\ logCall[1].maxCommits = 0
    /\ logCall[1].status = "error"
    /\ repoLog # <<>>

\* C10: for N > 0 and a successful git log, getRecentCommits(N)
\* returns at most N records in the order of the output, every record with a
\* non-empty hash, message, timestamp and author; empty output yields an
\* empty list and no error.
C10_CommitsAsStated ==
    (logCall # <<>> /\ logCall[1].maxCommits > 0 /\ logCall[1].error # "Git log command failed") =>
        LET commits == logCall[1].commits
        IN  /\ logCall[1].status = "ok"
            /\ Len(commits) <= logCall[1].maxCommits
            /\ C10_InLogOrder(commits, logCall[1].maxCommits)
            /\ \A i \in 1..Len(commits) :
                  /\ commits[i].hash # <<>>
                  /\ commits[i].message # <<>>
                  /\ commits[i].timestamp # <<>>
                  /\ commits[i].author # <<>>
            /\ repoLog = <<>> => commits = <<>>

----------------------------------------------------------------------------
(* Properties of the status collector *)

\* the paths of the entries that satisfy a test of their code, in order
RECURSIVE C11_PathsWhere(_, _, _)
C11_PathsWhere(entries, xs, ys) ==
    IF entries = <<>> THEN <<>>
    ELSE IF Head(entries).x \in xs /\ Head(entries).y \in ys
         THEN <<Head(entries).path>> \o C11_PathsWhere(Tail(entries), xs, ys)
         ELSE C11_PathsWhere(Tail(entries), xs, ys)

\* C11: for every status line with code XY and path p, a successful
\* getWorkingDirectoryChanges puts p in staged exactly when X is neither a
\* space nor '?', in untracked exactly when Y is '?', and in unstaged exactly
\* when Y is neither a space nor '?'; the paths keep the order of the lines,
\* and empty output yields three empty lists.
C11_StatusClassified ==
    (statusCall # <<>> /\ statusCall[1].result.status = "ok") =>
        LET entries == statusCall[1].entries
            result == statusCall[1].result
        IN  /\ result.staged =
                  C11_PathsWhere(entries, StatusCodes \ {" ", "?"}, StatusCodes)
            /\ result.untracked = C11_PathsWhere(entries, StatusCodes, {"?"})
            /\ result.unstaged =
                  C11_PathsWhere(entries, StatusCodes, StatusCodes \ {" ", "?"})
            /\ entries = <<>> =>
                  /\ result.staged = <<>>
                  /\ result.unstaged = <<>>
                  /\ result.untracked = <<>>

\* a report whose first line has an unstaged change only (its code starts
\* with a space) and whose second line is an untracked path was classified
C11_Witness ==
    /\ statusCall # <<>>
    /\ statusCall[1].result.status = "ok"
    /\ Len(statusCall[1].entries) = 2
    /\ statusCall[1].entries[1].x = " "
    /\ statusCall[1].entries[1].y = "M"
    /\ statusCall[1].entries[2].x = "?"
    /\ statusCall[1].entries[2].y = "?"
    /\ statusCall[1].result.unstaged = <<statusCall[1].entries[1].path>>
    /\ statusCall[1].result.untracked = <<statusCall[1].entries[2].path>>

----------------------------------------------------------------------------
(* Properties of the AI client *)

\* C12: analyzeContext on a client whose credential is empty or only
\* whitespace fails with the missing-credential error and issues no HTTP
\* request.
C12_MissingCredentialRejected ==
    (aiCall # <<>> /\ Trim(aiCall[1].apiKey) = <<>>) =>
        /\ aiCall[1].result.status = "error"
        /\ aiCall[1].result.message = <<"OpenAI API key is required">>
        /\ aiCall[1].result.requests = 0
        /\ aiCall[1].result.interpretation = <<>>

\* a client with a whitespace-only credential was called while the service
\* would have answered with a valid document
C12_Witness ==
    /\ aiCall # <<>>
    /\ aiCall[1].apiKey = <<" ">>
    /\ aiCall[1].exchange.kind = "response"
    /\ aiCall[1].exchange.status = "200"
    /\ aiCall[1].exchange.body.kind = "choice"
    /\ aiCall[1].exchange.body.content.kind = "object"
    /\ ValidateDocument(aiCall[1].exchange.body.content.document).status = "ok"
    /\ aiCall[1].result.status = "error"

\* the call reached the validation of a JSON object the model answered with
DocumentOf(call) ==
    IF /\ Trim(call.apiKey) # <<>>
       /\ call.exchange.kind = "response"
       /\ call.exchange.status = "200"
       /\ call.exchange.body.kind = "choice"
       /\ call.exchange.body.content.kind = "object"
    THEN <<call.exchange.body.content.document>>
    ELSE <<>>

LacksField(document) ==
    \/ document.summary = <<>>
    \/ document.technicalContext = <<>>
    \/ document.suggestedNextSteps = <<>>
    \/ document.relatedFiles = <<>>
    \/ document.confidenceScore = <<>>

\* C13: when the JSON object the model answers with lacks any one of
\* summary, technicalContext, suggestedNextSteps, relatedFiles or
\* confidenceScore, the analyzeContext call of saveCommand fails with an
\* error whose message carries the missing-required-field text and returns
\* no interpretation, and the note saveCommand then saves carries no
\* interpretation.
C13_MissingFieldRejected ==
    (/\ last.op = "save" /\ last.ai # <<>>
     /\ DocumentOf(last.ai[1]) # <<>>
     /\ LacksField(DocumentOf(last.ai[1])[1])) =>
        /\ last.ai[1].result.status = "error"
        /\ \E i \in 1..Len(last.ai[1].result.message) :
              last.ai[1].result.message[i] =
                  "Invalid AI response format: missing required fields"
        /\ last.ai[1].result.interpretation = <<>>
        /\ Len(getWorkNote(last.id)) = 1
        /\ getWorkNote(last.id)[1].aiInterpretation = <<>>
        /\ dataFile = JsonFile(data)

\* saveCommand saved a note after the model answered with a document that
\* lacks technicalContext only
C13_Witness ==
    /\ last.op = "save" /\ last.ai # <<>>
    /\ DocumentOf(last.ai[1]) # <<>>
    /\ LET d == DocumentOf(last.ai[1])[1]
       IN  /\ d.technicalContext = <<>>
           /\ d.summary # <<>> /\ d.suggestedNextSteps = <<"array">>
           /\ d.relatedFiles = <<"array">>
           /\ d.confidenceScore = <<NumberValue(5)>>
    /\ last.ai[1].result.status = "error"
    /\ Len(getWorkNote(last.id)) = 1

\* C16: when the AI call made by saveCommand fails, for whatever reason,
\* the note is still saved, in the store and in the notes file, with the
\* message, timestamp, snapshot and descriptor the command built and without
\* an interpretation, and the command does not exit with failure.
C16_SavedDespiteAIFailure ==
    (/\ last.op = "save" /\ last.ai # <<>>
     /\ last.ai[1].result.status = "error") =>
        /\ last.exit = 0
        /\ getWorkNote(last.id) = last.note
        /\ last.note[1].aiInterpretation = <<>>
        /\ dataFile = JsonFile(data)

\* saveCommand saved a second note although the service answered 429
C16_Witness ==
    /\ last.op = "save" /\ last.ai # <<>>
    /\ last.ai[1].exchange.kind = "response"
    /\ last.ai[1].exchange.status = "429"
    /\ last.ai[1].result.status = "error"
    /\ Len(data) = 2
    /\ last.exit = 0

\* C14: every interpretation analyzeContext returns has a confidence score
\* within [0,1]: a number above 1 is returned as 1, a number below 0 as 0, a
\* number in range unchanged; a document that is otherwise valid is never
\* rejected because its score is out of range.
C14_ScoreClamped ==
    (aiCall # <<>>) =>
        /\ aiCall[1].result.status = "ok" =>
              LET given == DocumentOf(aiCall[1])[1].confidenceScore[1].value
                  score == aiCall[1].result.interpretation[1].confidenceScore[1]
              IN  /\ score.type = "number"
                  /\ score.value >= 0 /\ score.value <= 10
                  /\ given > 10 => score.value = 10
                  /\ given < 0 => score.value = 0
                  /\ (given >= 0 /\ given <= 10) => score.value = given
        /\ (/\ DocumentOf(aiCall[1]) # <<>>
            /\ LET d == DocumentOf(aiCall[1])[1]
               IN  /\ d.summary # <<>> /\ d.technicalContext # <<>>
                   /\ d.suggestedNextSteps = <<"array">>
                   /\ d.relatedFiles = <<"array">>
                   /\ d.confidenceScore # <<>>
                   /\ d.confidenceScore[1].type = "number")
              => aiCall[1].result.status = "ok"

\* a document with the score 1.5 was returned with the score 1
C14_Witness ==
    /\ aiCall # <<>>
    /\ aiCall[1].result.status = "ok"
    /\ DocumentOf(aiCall[1])[1].confidenceScore = <<NumberValue(15)>>
    /\ aiCall[1].result.interpretation[1].confidenceScore = <<NumberValue(10)>>

\* C15: for every response that is not 2xx, whatever its body,
\* analyzeContext raises the rate-limited error when the status is 429 and
\* the upstream error carrying the status code when it is anything else.
C15_ErrorByStatus ==
    (/\ aiCall # <<>>
     /\ Trim(aiCall[1].apiKey) # <<>>
     /\ aiCall[1].exchange.kind = "response"
     /\ aiCall[1].exchange.status # "200") =>
        /\ aiCall[1].result.status = "error"
        /\ IF aiCall[1].exchange.status = "429"
           THEN aiCall[1].result.message =
                    <<"OpenAI API rate limit exceeded. Please try again later.">>
           ELSE /\ Len(aiCall[1].result.message) = 4
                /\ aiCall[1].result.message[1] = "OpenAI API error ("
                /\ aiCall[1].result.message[2] = aiCall[1].exchange.status

\* C17: when the notes file is missing, is not valid JSON, or holds no
\* well-formed id-to-note mapping, initialize does not fail and the store
\* starts empty, and every note saved afterwards is saved and fetched
\* normally.
C17_RecoversFromBadFile ==
    [][/\ (InitializeStep /\ dataFile \in BadFiles) => data' = <<>>
       /\ last'.op = "saveWorkNote" =>
            /\ ~last'.threw
            /\ \A id \in NoteIds : id = last'.note[1].id =>
                   getWorkNote(id)' = <<last'.note[1]>>
      ]_vars


\* no two notes of the collection were written at the same time
DistinctTimestamps(notes) ==
    \A i, j \in 1..Len(notes) :
        i # j => getTime(notes[i].timestamp) # getTime(notes[j].timestamp)

\* the record is one of the notes of the store
InStore(note) == \E i \in 1..Len(data) : data[i] = note

\* C18: over a store whose timestamps are pairwise distinct and for a limit
\* of at least 1, getRecentWorkNotes(limit) returns exactly min(limit, total)
\* notes, they are the notes with the greatest timestamps, and they are in
\* strictly descending timestamp order; getLatestWorkNote returns the note
\* with the greatest timestamp, or null when the store is empty.
C18_NewestFirst ==
    DistinctTimestamps(data) =>
        /\ (last.op = "getRecentWorkNotes" /\ last.count >= 1) =>
              /\ Len(last.shown) = Min(last.count, Len(data))
              /\ \A i \in 1..Len(last.shown) : InStore(last.shown[i])
              /\ \A i, j \in 1..Len(last.shown) :
                    i < j => getTime(last.shown[i].timestamp)
                                > getTime(last.shown[j].timestamp)
              /\ \A k \in 1..Len(data) :
                    (\A i \in 1..Len(last.shown) : last.shown[i] # data[k]) =>
                        \A i \in 1..Len(last.shown) :
                            getTime(last.shown[i].timestamp)
                                > getTime(data[k].timestamp)
        /\ last.op = "getLatestWorkNote" =>
              IF data = <<>> THEN last.shown = <<>>
              ELSE /\ Len(last.shown) = 1
                   /\ InStore(last.shown[1])
                   /\ NewestOf(last.shown[1], data)

\* a query with a limit below the total returned the newest notes of a store
\* that holds them oldest first
C18_Witness ==
    /\ last.op = "getRecentWorkNotes"
    /\ DistinctTimestamps(data)
    /\ Len(data) >= 2
    /\ last.count < Len(data)
    /\ getTime(data[1].timestamp) < getTime(data[Len(data)].timestamp)
    /\ last.shown = <<data[Len(data)]>>


\* the notes a sequence holds
NotesIn(notes) == {notes[i] : i \in 1..Len(notes)}

C20_UpdateMerges ==
    [][/\ (last'.op = "updateConfig" /\ ~last'.threw) =>
            /\ Len(config') = 1
            /\ \A f \in DOMAIN last'.updates :
                  config'[1][f] = IF Len(last'.updates[f]) = 1
                                  THEN last'.updates[f][1]
                                  ELSE config[1][f]
            /\ data' = data
            /\ dataFile' = dataFile
            /\ loadConfig(configFile').config = config'
       /\ (InitializeStep /\ last.op = "updateConfig" /\ ~last.threw) =>
            config' = config
      ]_vars

\* an update of two fields has left a stored credential and the notes alone
C20_Witness ==
    /\ last.op = "updateConfig"
    /\ ~last.threw
    /\ last.updates.openaiApiKey = <<>>
    /\ last.updates.maxCommits = <<15>>
    /\ last.updates.enableAI = <<FALSE>>
    /\ Len(config) = 1
    /\ config[1].openaiApiKey = <<(<<"k">>)>>
    /\ config[1].maxCommits = 15
    /\ config[1].aiModel = "gpt-4"
    /\ configFile = config
    /\ data # <<>>


\* the text without the path separator it ends with, if it ends with one
StripTrailingSeparator(text) ==
    IF text # <<>> /\ text[Len(text)] = "/" THEN DropLast(text, 1) ELSE text

\* C21: the repository path the git collector derives from git's
\* repository-location output equals that output with surrounding whitespace
\* and any trailing path separator removed, so two outputs that differ only
\* in whitespace or a trailing separator yield the same identifier.
C21_PathNormalized ==
    (pathCall # <<>> /\ pathCall[1].result.status = "ok") =>
        pathCall[1].result.path = StripTrailingSeparator(Trim(pathCall[1].stdout))

\* C22: for every string r given as the repository filter, the empty string
\* included, getRecentWorkNotes(limit, r) and getWorkNotesByRepository(r)
\* return only notes whose identifier is r; getWorkNotesByRepository(r)
\* returns all of them, newest first, and the empty list when there is none.
C22_FilterRestricts ==
    \A r \in RepositoryPaths :
        /\ \A limit \in 1..MaxCount :
              LET recent == getRecentWorkNotes(limit, <<r>>)
              IN  \A i \in 1..Len(recent) : HasIdentifier(recent[i], r)
        /\ LET all == getWorkNotesByRepository(r)
           IN  /\ \A i \in 1..Len(all) : HasIdentifier(all[i], r)
               /\ NotesIn(all) = NotesIn(NotesOf(r))
               /\ Len(all) = Len(NotesOf(r))
               /\ \A i, j \in 1..Len(all) :
                     i < j => getTime(all[i].timestamp) >= getTime(all[j].timestamp)

\* C23: saveCommand asks the git collector for as many commits as the
\* settings record holds as max-commits at the time of the save (10 by
\* default, k after the setting was changed to k).
C23_SaveUsesMaxCommits ==
    last.op = "save" => last.requested = config[1].maxCommits

\* the failure categories whose error text the message carries
ReportedCategories(message) ==
    {c \in {"missingCredential", "rateLimited", "upstream", "noChoice",
            "malformedJson", "invalidField", "network"} :
        \E i \in 1..Len(message) :
            CASE c = "missingCredential" ->
                    message[i] = "OpenAI API key is required"
              [] c = "rateLimited" ->
                    message[i] = "OpenAI API rate limit exceeded. Please try again later."
              [] c = "upstream" -> message[i] = "OpenAI API error ("
              [] c = "noChoice" -> message[i] = "No response from AI"
              [] c = "malformedJson" ->
                    message[i] = "Failed to parse AI response: invalid JSON format"
              [] c = "invalidField" ->
                    PhraseIncludes(message[i], "Invalid AI response format")
              [] c = "network" -> message[i] = "Failed to connect to OpenAI API: "}

\* the category of the failure a call runs into, <<>> for a call that
\* succeeds and for a response whose own body is not JSON
FailureCategory(call) ==
    IF Trim(call.apiKey) = <<>> THEN <<"missingCredential">>
    ELSE IF call.exchange.kind = "throws" THEN <<"network">>
    ELSE IF call.exchange.body.kind = "notJson" THEN <<>>
    ELSE IF call.exchange.status = "429" THEN <<"rateLimited">>
    ELSE IF call.exchange.status # "200" THEN <<"upstream">>
    ELSE IF call.exchange.body.kind \in {"noChoices", "emptyChoices"}
    THEN <<"noChoice">>
    ELSE IF call.exchange.body.content.kind = "notJson" THEN <<"malformedJson">>
    ELSE IF call.exchange.body.content.kind = "null" THEN <<>>
    ELSE LET d == call.exchange.body.content.document
         IN  IF \/ LacksField(d)
                \/ d.confidenceScore[1].type # "number"
                \/ d.suggestedNextSteps # <<"array">>
                \/ d.relatedFiles # <<"array">>
             THEN <<"invalidField">>
             ELSE <<>>

\* C24: every failure of analyzeContext (missing credential, rate-limited,
\* upstream error, no response choice, malformed JSON, missing or non-array
\* required field, network failure) is reported with the error of its own
\* category and of no other: a malformed or incomplete document is never
\* reported as a connection failure, nor a network failure as another.
C24_ErrorsDistinguishable ==
    (aiCall # <<>> /\ FailureCategory(aiCall[1]) # <<>>) =>
        /\ aiCall[1].result.status = "error"
        /\ ReportedCategories(aiCall[1].result.message)
              = {FailureCategory(aiCall[1])[1]}

\* the collection holds a note of the given id
HoldsId(notes, id) == \E i \in 1..Len(notes) : notes[i].id = id

\* C25: two Storage instances on one directory keep their own collection in
\* memory and rewrite the whole notes file on every save: after a save the
\* file holds exactly the collection of the instance that wrote, and when
\* the two instances save distinct notes one after the other, the note of
\* the first writer is absent from the file the second writer leaves.
C25_LaterWriterWins ==
    [][/\ (last'.op = "saveWorkNote" /\ ~last'.threw) =>
             dataFile' = JsonFile(data')
       /\ (last'.op = "peerSaveWorkNote" /\ ~last'.threw) =>
             dataFile' = JsonFile(peer'[1].workNotes)
       /\ (/\ last.op = "saveWorkNote" /\ ~last.threw
           /\ last'.op = "peerSaveWorkNote" /\ ~last'.threw
           /\ last'.id # last.id
           /\ ~HoldsId(peer[1].workNotes, last.id)) =>
             /\ ~HoldsId(dataFile'.workNotes, last.id)
             /\ HoldsId(data', last.id)
       /\ (/\ last.op = "peerSaveWorkNote" /\ ~last.threw
           /\ last'.op = "saveWorkNote" /\ ~last'.threw
           /\ last'.id # last.id
           /\ ~HoldsId(data, last.id)) =>
             /\ ~HoldsId(dataFile'.workNotes, last.id)
             /\ HoldsId(peer'[1].workNotes, last.id)
      ]_vars

\* both instances have saved a note of their own and the file holds only
\* the second writer's
C25_Witness ==
    /\ last.op = "peerSaveWorkNote"
    /\ Len(peer) = 1
    /\ dataFile = JsonFile(peer[1].workNotes)
    /\ Len(data) = 1
    /\ Len(peer[1].workNotes) = 1
    /\ data[1].id # peer[1].workNotes[1].id
    /\ ~HoldsId(dataFile.workNotes, data[1].id)

\* the queries of the call that fail with what git answers
FailingQueries(call) ==
    {q \in QuerySet : ~QueryOutcome(q, call.maxCommits, call.answers).ok}

\* C26: analyze starts the branch, commit, working-tree and path queries
\* independently; the snapshot it returns is the same for every order in
\* which they complete, and if any one of them fails analyze fails and
\* returns no snapshot.
C26_AnalyzeAllOrNothing ==
    analysis # <<>> =>
        LET call == analysis[1]
        IN  /\ Len(call.completed) = Len(Queries) => call.result # <<>>
            /\ call.result # <<>> =>
                  IF FailingQueries(call) = {}
                  THEN /\ Len(call.completed) = Len(Queries)
                       /\ call.result[1] =
                             AnalyzeReturned(
                                [repositoryPath |->
                                     QueryOutcome("repositoryPath", call.maxCommits,
                                                  call.answers).value[1],
                                 currentBranch |->
                                     QueryOutcome("currentBranch", call.maxCommits,
                                                  call.answers).value[1],
                                 recentCommits |->
                                     QueryOutcome("recentCommits", call.maxCommits,
                                                  call.answers).value[1],
                                 workingDirectoryChanges |->
                                     QueryOutcome("workingDirectoryChanges",
                                                  call.maxCommits,
                                                  call.answers).value[1]])
                  ELSE /\ call.result[1].status = "error"
                       /\ call.result[1].context = <<>>
                       /\ \E q \in FailingQueries(call) :
                             call.result[1].error =
                                QueryOutcome(q, call.maxCommits, call.answers).error

\* the path query completed first and the branch query last, the branch was
\* found by the fallback, and analyze returned the snapshot
C26_Witness ==
    /\ analysis # <<>>
    /\ Len(analysis[1].completed) = 4
    /\ analysis[1].completed[1] = "repositoryPath"
    /\ analysis[1].completed[4] = "currentBranch"
    /\ ~analysis[1].answers.showCurrent.success
    /\ analysis[1].result # <<>>
    /\ analysis[1].result[1].status = "ok"
    /\ analysis[1].result[1].context[1].currentBranch = <<"d">>
    /\ analysis[1].result[1].context[1].repositoryPath = <<"/", "p">>


\* C27: when the git analysis of saveCommand fails, no AI request is made
\* and no note is written: the collection and the notes file are after the
\* command what they were before it, and the command exits with a status
\* that is not zero.
C27_FailedAnalysisWritesNothing ==
    [][(last'.op = "save" /\ last'.error # "") =>
           /\ data' = data
           /\ dataFile' = dataFile
           /\ last'.ai = <<>>
           /\ last'.note = <<>>
           /\ last'.exit # 0
      ]_vars

\* a save outside a repository, by an instance with an AI client, left the
\* stored note alone; the error is not the one the command has guidance for
C27_Witness ==
    /\ last.op = "save"
    /\ last.error = "Git log command failed: "
    /\ last.exit = 1
    /\ ~last.noAi
    /\ aiClient # <<>>
    /\ Len(data) = 1
    /\ dataFile = JsonFile(data)

----------------------------------------------------------------------------
(* The two forms of a log output *)

\* Array.prototype.join(",")
RECURSIVE JoinComma(_)
JoinComma(texts) ==
    IF texts = <<>> THEN <<>>
    ELSE IF Len(texts) = 1 THEN texts[1]
    ELSE Head(texts) \o <<",">> \o JoinComma(Tail(texts))

\* one commit in single-line form: its files comma-joined after the fourth
\* separator
SingleLineCommit(c) ==
    c.hash \o <<FieldSeparator>> \o c.subject \o <<FieldSeparator>> \o
    c.date \o <<FieldSeparator>> \o c.author \o <<FieldSeparator>> \o
    JoinComma(c.files)

\* a list of commits in single-line form, one line per commit
RECURSIVE SingleLineLog(_)
SingleLineLog(commits) ==
    IF commits = <<>> THEN <<>>
    ELSE IF Len(commits) = 1 THEN SingleLineCommit(commits[1])
    ELSE SingleLineCommit(Head(commits)) \o <<NewLine>> \o
         SingleLineLog(Tail(commits))

\* the commits a call of getRecentCommits was shown by git
ShownCommits(call) ==
    SubSeq(repoLog, 1, Min(call.maxCommits, Len(repoLog)))

\* C28: a commit parses to the same record from block form (header line, then
\* one file name per line) as from single-line form (files comma-joined after
\* the fourth separator); output holding exactly one commit in block form
\* yields that commit with all of its file names in filesChanged.
C28_FormsAgree ==
    (/\ logCall # <<>>
     /\ logCall[1].maxCommits > 0
     /\ logCall[1].runs = 1
     /\ logCall[1].error # "Git log command failed"
     /\ \A k \in 1..Len(repoLog) : ~Includes(repoLog[k].subject, <<FieldSeparator>>)) =>
        LET shown == ShownCommits(logCall[1])
        IN  /\ logCall[1].status = "ok"
            /\ shown # <<>> =>
                  logCall[1].commits = parseGitLogOutput(SingleLineLog(shown)).commits
            /\ Len(shown) = 1 =>
                  /\ Len(logCall[1].commits) = 1
                  /\ logCall[1].commits[1].filesChanged = shown[1].files


\* C29: when every saveWorkNote and deleteWorkNote call issued on one
\* instance has resolved, calls started together and written in any order
\* included, the notes file holds exactly the collection in memory, and a new
\* instance initialized on the same directory sees the same set of notes.
C29_FileHoldsCollection ==
    (pending # {} /\ \A p \in pending : p.resolved) =>
        /\ dataFile = saveData(data)
        /\ NotesIn(loadData(dataFile).data) = NotesIn(data)


\* the settings hold a credential
CredentialStored(settings) ==
    IF settings.openaiApiKey = <<>> THEN FALSE
    ELSE settings.openaiApiKey[1] # <<>>

\* C30: over initialize, config set and save on one BrainCLI instance,
\* saveCommand issues an AI request only when noAi is not set, the stored
\* enable-ai setting is true at the time of the save and a credential is
\* stored; in every other case the note is saved without any AI request.
C30_AIRequestOnlyWhenEnabled ==
    [][(/\ last'.op = "save"
        /\ ~(/\ ~last'.noAi
             /\ config[1].enableAI
             /\ CredentialStored(config[1]))) =>
           /\ last'.ai = <<>>
           /\ last'.error = "" =>
                 /\ last'.exit = 0
                 /\ data' = PutNote(data, last'.note[1])
                 /\ data'[IndexOf(data', last'.id)].aiInterpretation = <<>>
                 /\ dataFile' = saveData(data')
      ]_vars

\* the instance built its client, enable-ai was then set to false, and a save
\* without noAi stored its note and asked nothing
C30_Witness ==
    /\ last.op = "save"
    /\ ~last.noAi
    /\ aiClient # <<>>
    /\ ~config[1].enableAI
    /\ CredentialStored(config[1])
    /\ last.ai = <<>>
    /\ last.error = ""
    /\ Len(data) = 1

=============================================================================
